---- MODULE Spec2Model ----
(***************************************************************************)
(* Model of the mcp-hub client: the service registry (registry.py), the    *)
(* orchestrator's attach / detach / heartbeat / reconnect operations       *)
(* (client.py) and the /register and /remove_service endpoints (main.py).  *)
(*                                                                         *)
(* The program runs on one asyncio event loop, so a coroutine runs         *)
(* atomically from one real suspension point (stream open, initialize,     *)
(* list_tools, HTTP GET, sleep, gather) to the next.  Every action below   *)
(* is one such run-to-suspension segment.                                  *)
(***************************************************************************)
EXTENDS Integers, Sequences, FiniteSets, TLC

VARIABLES
    sessions,              \* registry.sessions: url -> session
    service_health,        \* registry.service_health: url -> last heartbeat time
    tool_cache,            \* registry.tool_cache: tool name -> tool definition
    tool_to_session_map,   \* registry.tool_to_session_map: tool name -> session
    service_names,         \* registry.service_names: url -> display name
    pending_reconnection,  \* orchestrator.pending_reconnection
    tasks,                 \* the connect_service calls in flight
    created,               \* number of ClientSession objects created so far
    session_attrs,         \* the url and name attributes set on session objects
    now,                   \* datetime.now()
    urls_timed_out,        \* disconnect tasks of the running heartbeat tick
    probe_tasks,           \* _send_one_heartbeat tasks of the running tick
    manifest,              \* what each server answers to list_tools
    hist,                  \* log of the operations of a sequential client
    server_up,             \* the servers that answer their /health and SSE endpoints
    ran,                   \* the tasks that ran since the heartbeat tick scheduled
                           \* its disconnect tasks
    run,                   \* the agent run in progress: its locals and its position
    enable_trace,          \* react_agent.enable_trace
    queries,               \* the /query requests in progress, each with its agent run
    twin,                  \* a step-streamed run driven by the same inputs as run
    heartbeat_task,        \* orchestrator.heartbeat_task: a task handle or None
    reconnection_task,     \* orchestrator.reconnection_task: a task handle or None
    loop_tasks,            \* the tasks start_monitoring created, by handle
    released,              \* the sessions whose streams exit_stack.aclose() closed
    cleanup_pc,            \* the position of the lifespan's call of cleanup
    start_calls            \* number of start_monitoring calls so far

registry == <<sessions, service_health, tool_cache, tool_to_session_map, service_names>>
vars == <<sessions, service_health, tool_cache, tool_to_session_map, service_names,
          pending_reconnection, tasks, created, session_attrs, now, urls_timed_out,
          probe_tasks, manifest, hist, server_up, ran, run,
          enable_trace, queries, twin, heartbeat_task, reconnection_task, loop_tasks,
          released, cleanup_pc, start_calls>>

\* the monitoring tasks and the resources of the orchestrator
lifecycle == <<heartbeat_task, reconnection_task, loop_tasks, released, cleanup_pc,
               start_calls>>

\* the state outside the orchestrator that the orchestrator's steps never write
outside == <<server_up, run, enable_trace, queries, twin, lifecycle>>

(***************************************************************************)
(* Bounds of the model.                                                    *)
(***************************************************************************)
MaxRequests == 1
MaxSessions == 2
MaxTime == 2
MaxManifest == 2
MaxHist == 3

URLs == {"uA", "uB"}
ToolNames == {"t1", "t2", "t3"}
PayloadNames == {"", "svc"}

(***************************************************************************)
(* Program constants.                                                      *)
(***************************************************************************)
max_retries == 3
heartbeat_timeout == 1

None == 0
Sessions == 1..MaxSessions
NoUrl == "-"
NoTime == -1


(***************************************************************************)
(* Python dict helpers.                                                    *)
(***************************************************************************)
DictSet(d, k, v) == [x \in (DOMAIN d) \cup {k} |-> IF x = k THEN v ELSE d[x]]
DictDel(d, ks) == [x \in (DOMAIN d) \ ks |-> d[x]]
EmptyDict == [x \in {} |-> None]
Range(f) == {f[x] : x \in DOMAIN f}
SeqToSet(s) == {s[i] : i \in 1..Len(s)}

\* Python's `needle in haystack` on text, the text being a sequence of words.
Contains(haystack, needle) ==
    \E i \in 0..(Len(haystack) - Len(needle)) :
        \A j \in 1..Len(needle) : haystack[i + j] = needle[j]

(***************************************************************************)
(* Tool servers.  A server's answer to list_tools is a sequence of tools,  *)
(* each with a name, a description and a declared parameter schema.  A     *)
(* schema dict is abstracted to its "type" entry and its top-level keys.   *)
(***************************************************************************)
NoSchema == [type |-> "None", keys |-> <<>>]
EmptySchema == [type |-> "absent", keys |-> <<>>]

RawTool(u, t) ==
    [name |-> t,
     description |-> <<"tool", t, "of", u>>,
     inputSchema |-> IF t = "t1" THEN [type |-> "object", keys |-> <<"type", "properties">>]
                     ELSE IF t = "t2" THEN [type |-> "absent", keys |-> <<"city">>]
                     ELSE NoSchema]

ToolsResponse(u, names) == [i \in 1..Len(names) |-> RawTool(u, names[i])]

\* ReActAgent._enhance_tool_description
UseThisTool == <<"use", "this", "tool">>
Lower(w) == IF w = "Use" THEN "use" ELSE w
LowerText(d) == [i \in 1..Len(d) |-> Lower(d[i])]
enhance_tool_description(description, tool_name) ==
    LET d1 == IF Len(description) > 0 /\ description[Len(description)] = "."
              THEN description ELSE Append(description, ".")
    IN  IF Contains(LowerText(d1), UseThisTool) THEN d1
        ELSE d1 \o <<"Use", "this", "tool", "when", "you", "need", tool_name,
                     "related", "functionality", ".">>

\* mutant: the declared schema is stored as it is
normalize_parameters_as_declared(inputSchema) == inputSchema

\* the parameter-schema coercion of process_tool_definitions
normalize_parameters(inputSchema) ==
    LET parameters == IF inputSchema = NoSchema \/ inputSchema = EmptySchema
                      THEN EmptySchema ELSE inputSchema
    IN  IF parameters.type # "object"
        THEN [type |-> "object", properties |-> parameters, required |-> parameters.keys]
        ELSE parameters

\* ReActAgent.process_tool_definitions: the (name, definition) pairs
process_tool_definitions(tools_response) ==
    [i \in 1..Len(tools_response) |->
        <<tools_response[i].name,
          [name |-> tools_response[i].name,
           description |-> enhance_tool_description(tools_response[i].description,
                                                     tools_response[i].name),
           parameters |-> normalize_parameters(tools_response[i].inputSchema)]>>]

(***************************************************************************)
(* ServiceRegistry.  The operations are functions of the registry state    *)
(* (the five maps) that return the new maps and the Python return value.   *)
(***************************************************************************)
RECURSIVE add_tools_overwrite(_, _, _, _)
\* mutant: a conflicting tool name is overwritten by the newcomer (last writer wins)
add_tools_overwrite(acc, tools, i, session) ==
    IF i > Len(tools) THEN acc
    ELSE add_tools_overwrite(
             [tool_cache |-> DictSet(acc.tool_cache, tools[i][1], tools[i][2]),
              tool_to_session_map |-> DictSet(acc.tool_to_session_map, tools[i][1], session),
              added |-> Append(acc.added, tools[i][1])],
             tools, i + 1, session)

RECURSIVE add_tools(_, _, _, _)
\* the loop of add_service over the (name, definition) pairs, from index i
add_tools(acc, tools, i, session) ==
    IF i > Len(tools) THEN acc
    ELSE LET tool_name == tools[i][1]
             tool_definition == tools[i][2]
         IN  IF tool_name \in DOMAIN acc.tool_cache
             THEN add_tools(acc, tools, i + 1, session)
             ELSE add_tools([tool_cache |-> DictSet(acc.tool_cache, tool_name, tool_definition),
                             tool_to_session_map |->
                                 DictSet(acc.tool_to_session_map, tool_name, session),
                             added |-> Append(acc.added, tool_name)],
                            tools, i + 1, session)

add_service(url, session, tools, name) ==
    LET display_name == IF name # "" THEN name ELSE url
        r == add_tools([tool_cache |-> tool_cache,
                        tool_to_session_map |-> tool_to_session_map,
                        added |-> <<>>], tools, 1, session)
    IN  [sessions |-> DictSet(sessions, url, session),
         service_health |-> DictSet(service_health, url, now),
         service_names |-> DictSet(service_names, url, display_name),
         tool_cache |-> r.tool_cache,
         tool_to_session_map |-> r.tool_to_session_map,
         ret |-> r.added]

\* mutant: the tools of the removed session stay in the registry
remove_service_keep_tools(url) ==
    IF url \notin DOMAIN sessions
    THEN [sessions |-> sessions, service_health |-> service_health,
          service_names |-> service_names, tool_cache |-> tool_cache,
          tool_to_session_map |-> tool_to_session_map, ret |-> None]
    ELSE [sessions |-> DictDel(sessions, {url}),
          service_health |-> DictDel(service_health, {url}),
          service_names |-> DictDel(service_names, {url}),
          tool_cache |-> tool_cache,
          tool_to_session_map |-> tool_to_session_map,
          ret |-> sessions[url]]

\* mutant: only the tool routing of the removed session is dropped at once, its
\* cached definitions stay
remove_service_keep_cache(url) ==
    IF url \notin DOMAIN sessions
    THEN [sessions |-> sessions, service_health |-> service_health,
          service_names |-> service_names, tool_cache |-> tool_cache,
          tool_to_session_map |-> tool_to_session_map, ret |-> None]
    ELSE [sessions |-> DictDel(sessions, {url}),
          service_health |-> DictDel(service_health, {url}),
          service_names |-> service_names,
          tool_cache |-> tool_cache,
          tool_to_session_map |->
              DictDel(tool_to_session_map,
                      {t \in DOMAIN tool_to_session_map :
                          tool_to_session_map[t] = sessions[url]}),
          ret |-> sessions[url]]

\* mutant: the heartbeat record of the removed URL stays
remove_service_keep_health(url) ==
    IF url \notin DOMAIN sessions
    THEN [sessions |-> sessions, service_health |-> service_health,
          service_names |-> service_names, tool_cache |-> tool_cache,
          tool_to_session_map |-> tool_to_session_map, ret |-> None]
    ELSE [sessions |-> DictDel(sessions, {url}),
          service_health |-> service_health,
          service_names |-> DictDel(service_names, {url}),
          tool_cache |-> DictDel(tool_cache, {t \in DOMAIN tool_to_session_map :
                                                 tool_to_session_map[t] = sessions[url]}),
          tool_to_session_map |->
              DictDel(tool_to_session_map,
                      {t \in DOMAIN tool_to_session_map :
                          tool_to_session_map[t] = sessions[url]}),
          ret |-> sessions[url]]

remove_service(url) ==
    IF url \notin DOMAIN sessions
    THEN [sessions |-> sessions, service_health |-> service_health,
          service_names |-> service_names, tool_cache |-> tool_cache,
          tool_to_session_map |-> tool_to_session_map, ret |-> None]
    ELSE LET session == sessions[url]
             tools_to_remove == {t \in DOMAIN tool_to_session_map :
                                    tool_to_session_map[t] = session}
         IN  [sessions |-> DictDel(sessions, {url}),
              service_health |-> DictDel(service_health, {url}),
              service_names |-> DictDel(service_names, {url}),
              tool_cache |-> DictDel(tool_cache, tools_to_remove),
              tool_to_session_map |-> DictDel(tool_to_session_map, tools_to_remove),
              ret |-> session]

\* mutant: the heartbeat is recorded whether or not the URL is still registered
update_service_health_unguarded(url) == DictSet(service_health, url, now)

update_service_health(url) ==
    IF url \in DOMAIN sessions THEN DictSet(service_health, url, now) ELSE service_health

get_last_heartbeat(url) ==
    IF url \in DOMAIN service_health THEN service_health[url] ELSE NoTime

get_session(url) == IF url \in DOMAIN sessions THEN sessions[url] ELSE None

get_session_for_tool(tool_name) ==
    IF tool_name \in DOMAIN tool_to_session_map THEN tool_to_session_map[tool_name] ELSE None

get_tools_for_service(url) ==
    IF url \notin DOMAIN sessions THEN {}
    ELSE {t \in DOMAIN tool_to_session_map : tool_to_session_map[t] = sessions[url]}

\* assignment of an operation's result to the registry
SetRegistry(r) ==
    /\ sessions' = r.sessions
    /\ service_health' = r.service_health
    /\ service_names' = r.service_names
    /\ tool_cache' = r.tool_cache
    /\ tool_to_session_map' = r.tool_to_session_map


(***************************************************************************)
(* connect_service.  A call is a task with a position:                     *)
(*   "start" created by the reconnect tick, not yet run                    *)
(*   "open"  awaiting the stream open (sse_client), retry_count in retry   *)
(*   "init"  awaiting session.initialize()                                 *)
(*   "list"  awaiting session.list_tools()                                 *)
(*   "done"  returned; result holds what it returned                       *)
(* retry is retry_count, last_error is last_error and opens counts the     *)
(* calls of sse_client the call has made.                                  *)
(***************************************************************************)
Requests == 1..MaxRequests
UrlIndex(u) == IF u = "uA" THEN 1 ELSE 2
Child(u) == MaxRequests + UrlIndex(u)
Children == {Child(u) : u \in URLs}
TaskIds == Requests \cup Children

NoError == [class |-> "", code |-> 0, text |-> <<>>]
NoResult == [ok |-> FALSE, message |-> <<>>, status |-> 0, added |-> <<>>, error |-> NoError]
IdleTask == [pc |-> "idle", url |-> NoUrl, name |-> "", session |-> None,
             retry |-> 0, last_error |-> NoError, opens |-> 0, result |-> NoResult]

\* exceptions that reach the handlers of connect_service
ErrTexts == {<<"All", "connection", "attempts", "failed">>, <<"Connection", "failed">>}
HttpCodes == {502, 404}
OpenExceptions ==
    [class : {"TimeoutError", "ConnectError", "ConnectTimeout", "RequestError",
              "Exception"},
     code : {0}, text : ErrTexts]
    \cup [class : {"HTTPStatusError"}, code : HttpCodes, text : {<<"status">>}]
ProtocolExceptions ==
    [class : {"TimeoutError", "Exception"}, code : {0}, text : ErrTexts]

\* the (False, message) of the unified exception handling
failure_message(e, display_name, server_url) ==
    IF e.class = "TimeoutError"
    THEN <<"Connection", "timeout", ":", "Protocol", "interaction", "with", "service",
           display_name, "(", server_url, ")", "timed", "out">>
    ELSE IF e.class \in {"ConnectError", "ConnectTimeout"}
    THEN <<"Could", "not", "connect", "to", "service", display_name,
           "(", server_url, ")", ":">> \o e.text
           \o <<".", "Please", "check", "if", "the", "service", "is", "running">>
    ELSE IF e.class = "RequestError"
    THEN <<"Network", "connection", "error", ":">> \o e.text
    ELSE IF e.class = "HTTPStatusError" /\ e.code = 502
    THEN <<"Connection", "failed", ":", "Target", "service", "returned", "502", "Bad",
           "Gateway", ".", "Please", "check", "if", "target", "service", display_name,
           "is", "healthy">>
    ELSE IF e.class = "HTTPStatusError" /\ e.code # 0
    THEN <<"Connection", "failed", ":", "Target", "service", "returned", "HTTP",
           ToString(e.code), "error", ".">>
    ELSE <<"Service", "initialization", "or", "setup", "failed", "(", "type", ":",
           e.class, ")", ":">> \o e.text

success_message(added_tool_names) ==
    <<"Connection", "successful", ".", "Added", "tools", ":">>
    \o (IF added_tool_names # <<>> THEN added_tool_names ELSE <<"none">>)

\* mutant: only a 502 of the target counts as a connection issue
is_connection_issue_502_only(message) == Contains(message, <<"502", "Bad", "Gateway">>)

\* register_service_endpoint: the status of the answer to a failed attach
is_connection_issue(message) ==
    \/ Contains(message, <<"502", "Bad", "Gateway">>)
    \/ Contains(message, <<"Connection", "failed">>)
    \/ Contains(message, <<"Network", "connection", "error">>)

register_status(ok, message) ==
    IF ok THEN 200 ELSE IF is_connection_issue(message) THEN 502 ELSE 500

\* service_name = payload.name or server_url_str.split('/')[-2]
UrlHost(u) == IF u = "uA" THEN "hostA" ELSE "hostB"
register_service_name(u, payload_name) ==
    IF payload_name # "" THEN payload_name ELSE UrlHost(u)

display_name_of(task) == IF task.name # "" THEN task.name ELSE task.url


(***************************************************************************)
(* Steps of connect_service.  Each step leaves hist to the specification.  *)
(***************************************************************************)
CurrentRegistry ==
    [sessions |-> sessions, service_health |-> service_health,
     service_names |-> service_names, tool_cache |-> tool_cache,
     tool_to_session_map |-> tool_to_session_map, ret |-> None]

\* mutant: a detach also forgets that the URL is pending reconnection
disconnect_service_forget_pending(server_url) ==
    /\ SetRegistry(remove_service(server_url))
    /\ pending_reconnection' = pending_reconnection \ {server_url}

\* disconnect_service(server_url): no suspension point inside
disconnect_service(server_url) ==
    /\ SetRegistry(remove_service(server_url))
    /\ UNCHANGED pending_reconnection

\* mutant: connect_service never detaches before it connects
already_registered_ignored(server_url) == FALSE

\* line 94: if self.registry.get_session(server_url)
already_registered(server_url) == get_session(server_url) # None

\* lines 94-98: "already registered, will reconnect", up to the first stream open
connect_preflight(k, server_url, service_name) ==
    /\ IF already_registered(server_url)
       THEN disconnect_service(server_url)
       ELSE UNCHANGED <<registry, pending_reconnection>>
    /\ tasks' = [tasks EXCEPT ![k] = [IdleTask EXCEPT !.pc = "open", !.url = server_url,
                                                      !.name = service_name,
                                                      !.opens = 1]]
    /\ UNCHANGED <<created, session_attrs, now, urls_timed_out, probe_tasks, manifest>>

\* what the caller of connect_service does with (success, message): the /register
\* endpoint answers with a status and may add the URL to the pending set, the
\* reconnect tick only logs
caller_pending(k, ok, message, server_url, pending) ==
    IF k \in Requests /\ ~ok /\ is_connection_issue(message)
    THEN pending \cup {server_url} ELSE pending

caller_status(k, ok, message) ==
    IF k \in Requests THEN register_status(ok, message) ELSE 0

\* the HTTP detail of /register carries the message; the reconnect tick logs it
caller_message(k, message) == IF k \in Requests THEN message ELSE <<>>
caller_error(k, e) == IF k \in Requests THEN e ELSE NoError

\* mutant: every httpx.RequestError is retried
retried_any_request_error(e) ==
    e.class \in {"ConnectError", "ConnectTimeout", "RequestError"}

\* line 116: except (httpx.ConnectError, httpx.ConnectTimeout)
retried(e) == e.class \in {"ConnectError", "ConnectTimeout"}

\* connect_service returns (False, message) after exception e
connect_fail(k, e) ==
    LET t == tasks[k]
        message == failure_message(e, display_name_of(t), t.url)
    IN  /\ tasks' = [tasks EXCEPT ![k].pc = "done",
                                  ![k].last_error = IF tasks[k].pc = "open" /\ retried(e)
                                                    THEN e ELSE @,
                                  ![k].result = [ok |-> FALSE, message |-> caller_message(k, message),
                                                 status |-> caller_status(k, FALSE, message),
                                                 added |-> <<>>,
                                                 error |-> caller_error(k, e)]]
        /\ pending_reconnection' =
               caller_pending(k, FALSE, message, t.url, pending_reconnection)
        /\ UNCHANGED <<registry, now, urls_timed_out, probe_tasks, manifest>>

\* lines 106-124: one attempt of the retry loop ends
connect_open_ok(k) ==
    /\ tasks[k].pc = "open"
    /\ created < MaxSessions
    /\ created' = created + 1
    /\ UNCHANGED session_attrs
    /\ tasks' = [tasks EXCEPT ![k].pc = "init", ![k].session = created + 1]
    /\ UNCHANGED <<registry, pending_reconnection, now, urls_timed_out, probe_tasks,
                   manifest>>

connect_open_error(k, e) ==
    /\ tasks[k].pc = "open"
    /\ e \in OpenExceptions
    /\ UNCHANGED <<created, session_attrs>>
    /\ IF retried(e) /\ tasks[k].retry + 1 < max_retries
       THEN /\ tasks' = [tasks EXCEPT ![k].retry = @ + 1, ![k].last_error = e,
                                      ![k].opens = @ + 1]
            /\ UNCHANGED <<registry, pending_reconnection, now, urls_timed_out,
                           probe_tasks, manifest>>
       ELSE connect_fail(k, e)

\* lines 131-143: session.initialize() returns or raises
connect_initialize_ok(k) ==
    /\ tasks[k].pc = "init"
    /\ tasks' = [tasks EXCEPT ![k].pc = "list"]
    /\ UNCHANGED <<registry, pending_reconnection, created, session_attrs, now, urls_timed_out,
                   probe_tasks, manifest>>

connect_initialize_error(k, e) ==
    /\ tasks[k].pc = "init"
    /\ e \in ProtocolExceptions
    /\ UNCHANGED <<created, session_attrs>>
    /\ connect_fail(k, e)

\* mutant: a successful attach leaves the URL in the pending set
reconcile_pending_keep(pending, server_url) == pending

\* line 185: self.pending_reconnection.discard(server_url)
reconcile_pending(pending, server_url) == pending \ {server_url}

\* lines 145-190: session.list_tools() returns; install, reconcile, return
connect_commit(k) ==
    /\ tasks[k].pc = "list"
    /\ \E processed_tools \in
           {process_tool_definitions(ToolsResponse(tasks[k].url, manifest[tasks[k].url]))} :
       \E r \in {add_service(tasks[k].url, tasks[k].session, processed_tools,
                             tasks[k].name)} :
           LET t == tasks[k]
               message == success_message(r.ret)
           IN  /\ SetRegistry(r)
               /\ pending_reconnection' = reconcile_pending(pending_reconnection, t.url)
               /\ tasks' = [tasks EXCEPT ![k].pc = "done",
                                         ![k].result = [ok |-> TRUE,
                                                        message |-> caller_message(k, message),
                                                        status |-> caller_status(k, TRUE, message),
                                                        added |-> r.ret, error |-> NoError]]
               /\ session_attrs' = DictSet(session_attrs, t.session,
                                           [url |-> t.url, name |-> display_name_of(t)])
               /\ UNCHANGED <<created, now, urls_timed_out, probe_tasks, manifest>>

connect_list_tools_error(k, e) ==
    /\ tasks[k].pc = "list"
    /\ e \in ProtocolExceptions
    /\ UNCHANGED <<created, session_attrs>>
    /\ connect_fail(k, e)

\* POST /register: the request task runs connect_service up to its first await
register_service_endpoint(k, url, payload_name) ==
    /\ k \in Requests
    /\ tasks[k].pc = "idle"
    /\ connect_preflight(k, url, register_service_name(url, payload_name))

\* the answer of /register has been sent
register_respond(k) ==
    /\ k \in Requests
    /\ tasks[k].pc = "done"
    /\ tasks' = [tasks EXCEPT ![k] = IdleTask]
    /\ UNCHANGED <<registry, pending_reconnection, created, session_attrs, now, urls_timed_out,
                   probe_tasks, manifest>>

\* POST /remove_service: 404 for an unknown URL, otherwise detach
remove_service_endpoint(url) ==
    /\ IF url \in DOMAIN sessions
       THEN disconnect_service(url)
       ELSE UNCHANGED <<registry, pending_reconnection>>
    /\ UNCHANGED <<tasks, created, session_attrs, now, urls_timed_out, probe_tasks, manifest>>

\* mutant: a tick retries one pending URL
urls_to_retry_one == {CHOOSE u \in pending_reconnection : TRUE}

\* line 313: urls_to_retry = list(self.pending_reconnection)
urls_to_retry == pending_reconnection

(***************************************************************************)
(* Reconnect loop.                                                         *)
(***************************************************************************)
\* _attempt_reconnections up to its gather: one connect_service(url) per pending URL
attempt_reconnections ==
    /\ \A c \in Children : tasks[c].pc = "idle"
    /\ pending_reconnection # {}
    /\ tasks' = [k \in TaskIds |->
                    IF \E u \in urls_to_retry : k = Child(u)
                    THEN [IdleTask EXCEPT !.pc = "start",
                                          !.url = CHOOSE u \in urls_to_retry : k = Child(u)]
                    ELSE tasks[k]]
    /\ UNCHANGED <<registry, pending_reconnection, created, session_attrs, now, urls_timed_out,
                   probe_tasks, manifest>>

\* a child task of the gather starts running connect_service(url)
reconnect_child_start(u) ==
    /\ tasks[Child(u)].pc = "start"
    /\ connect_preflight(Child(u), u, "")

\* the gather has all results; they are logged and the tick ends
attempt_reconnections_done ==
    /\ \E c \in Children : tasks[c].pc # "idle"
    /\ \A c \in Children : tasks[c].pc \in {"idle", "done"}
    /\ tasks' = [k \in TaskIds |-> IF k \in Children THEN IdleTask ELSE tasks[k]]
    /\ UNCHANGED <<registry, pending_reconnection, created, session_attrs, now, urls_timed_out,
                   probe_tasks, manifest>>

(***************************************************************************)
(* Heartbeat loop.                                                         *)
(***************************************************************************)
\* mutant: a heartbeat exactly heartbeat_timeout old is expired already
timed_out_at_boundary(url, current_time) ==
    LET last_heartbeat == get_last_heartbeat(url)
    IN  \/ last_heartbeat = NoTime
        \/ current_time - last_heartbeat >= heartbeat_timeout

\* lines 246-255: the expiry test of the heartbeat tick
timed_out(url, current_time) ==
    LET last_heartbeat == get_last_heartbeat(url)
    IN  \/ last_heartbeat = NoTime
        \/ current_time - last_heartbeat > heartbeat_timeout

\* mutant: the tick disconnects the expired URLs without marking them pending
check_all_services_unmarked ==
    LET urls_to_check == DOMAIN sessions
        expired == {u \in urls_to_check : timed_out(u, now)}
    IN  /\ urls_timed_out = {} /\ probe_tasks = {}
        /\ urls_to_check # {}
        /\ UNCHANGED pending_reconnection
        /\ urls_timed_out' = expired
        /\ probe_tasks' = urls_to_check \ expired
        /\ UNCHANGED <<registry, tasks, created, session_attrs, now, manifest>>

\* mutant: the tick creates a probe for every URL, the expired ones included
check_all_services_probe_all ==
    LET urls_to_check == DOMAIN sessions
        expired == {u \in urls_to_check : timed_out(u, now)}
    IN  /\ urls_timed_out = {} /\ probe_tasks = {}
        /\ urls_to_check # {}
        /\ pending_reconnection' = pending_reconnection \cup expired
        /\ urls_timed_out' = expired
        /\ probe_tasks' = urls_to_check
        /\ UNCHANGED <<registry, tasks, created, session_attrs, now, manifest>>

\* _check_all_services, lines 239-258: mark the expired URLs, create the probes
check_all_services ==
    LET urls_to_check == DOMAIN sessions
        expired == {u \in urls_to_check : timed_out(u, now)}
    IN  /\ urls_timed_out = {} /\ probe_tasks = {}
        /\ urls_to_check # {}
        /\ pending_reconnection' = pending_reconnection \cup expired
        /\ urls_timed_out' = expired
        /\ probe_tasks' = urls_to_check \ expired
        /\ UNCHANGED <<registry, tasks, created, session_attrs, now, manifest>>

\* one disconnect_service(url) of the gather at line 263
heartbeat_disconnect(u) ==
    /\ u \in urls_timed_out
    /\ disconnect_service(u)
    /\ urls_timed_out' = urls_timed_out \ {u}
    /\ UNCHANGED <<tasks, created, session_attrs, now, probe_tasks, manifest>>

\* mutant: a failed probe disconnects the service at once
send_one_heartbeat_expire_on_failure(u, healthy) ==
    /\ u \in probe_tasks
    /\ IF healthy
       THEN /\ service_health' = update_service_health(u)
            /\ UNCHANGED <<sessions, tool_cache, tool_to_session_map, service_names,
                           pending_reconnection>>
       ELSE /\ SetRegistry(remove_service(u))
            /\ pending_reconnection' = pending_reconnection \cup {u}
    /\ probe_tasks' = probe_tasks \ {u}
    /\ UNCHANGED <<tasks, created, session_attrs, now, urls_timed_out, manifest>>

\* _send_one_heartbeat(url): the GET /health answers 2xx, or fails
send_one_heartbeat(u, healthy) ==
    /\ u \in probe_tasks
    /\ service_health' = IF healthy THEN update_service_health(u) ELSE service_health
    /\ probe_tasks' = probe_tasks \ {u}
    /\ UNCHANGED <<sessions, tool_cache, tool_to_session_map, service_names,
                   pending_reconnection, tasks, created, session_attrs, now, urls_timed_out, manifest>>

\* is_service_healthy(server_url), lines 331-336
is_service_healthy(server_url) ==
    LET last_heartbeat == get_last_heartbeat(server_url)
    IN  IF last_heartbeat = NoTime THEN FALSE
        ELSE now - last_heartbeat <= heartbeat_timeout

\* time passes
Advance ==
    /\ now < MaxTime
    /\ now' = now + 1
    /\ UNCHANGED <<registry, pending_reconnection, tasks, created, session_attrs, urls_timed_out,
                   probe_tasks, manifest>>

(***************************************************************************)
(* The ReAct agent (react_agent.py).  A run is one call of process_query,  *)
(* stream_process_query or stream_process_query_token.  Text is a sequence *)
(* of words.  A run has a position:                                        *)
(*   "idle"     no run                                                     *)
(*   "llm"      at the model call of the current iteration                 *)
(*   "dispatch" a streaming run that has announced the tool call of        *)
(*              tool_calls[1] and has not yet looked up its session        *)
(*   "calling"  awaiting target_session.call_tool(...)                     *)
(*   "done"     returned (or emitted its final record); exit names the     *)
(*              return statement and result is what it returned            *)
(* llm_calls counts the calls of llm_client.chat.completions.create and    *)
(* invoked lists the calls of call_tool, as the model and the sessions     *)
(* see them, and emitted the records a step-streamed run has emitted.     *)
(* snapshot_owners and request_owner are history: the URL that            *)
(* owned each tool when the run took its tool snapshot, and the URL that   *)
(* owned the requested tool when the model call that requested it          *)
(* returned; raised tells that a model call of the run has raised, and     *)
(* offered lists the tool lists that the model calls of the run were given. *)
(* tool_call_ids lists, in the order of the messages, the tool_call ids of *)
(* the assistant tool-call turns and of the tool-result turns.             *)
(***************************************************************************)
\* react_max_iterations (the shipped default is 25)
max_iterations == 2

Modes == {"process_query", "stream_process_query", "stream_process_query_token"}

\* Python None in a content field
NoContent == <<"None">>
Blank == " "

Reverse(s) == [i \in 1..Len(s) |-> s[Len(s) + 1 - i]]

RECURSIVE lstrip(_)
lstrip(text) == IF text # <<>> /\ Head(text) = Blank THEN lstrip(Tail(text)) ELSE text

\* str.strip()
strip(text) == Reverse(lstrip(Reverse(lstrip(text))))

Message(role, content) == [role |-> role, content |-> content]

\* what the model may answer to one call
Answers == {<<Blank, "ok">>}
Thoughts == {<<>>, <<"thinking">>}
\* the tool the model asks for: the one both servers advertise
RequestedTools == {"t2"}
Arguments == {"{}", "{"}

ModelRaises == [raises |-> TRUE, finish_reason |-> "", content |-> <<>>, tool_calls |-> <<>>]

ModelResponses ==
    {ModelRaises}
    \cup {[raises |-> FALSE, finish_reason |-> "stop", content |-> c, tool_calls |-> <<>>] :
             c \in Answers}
    \cup {[raises |-> FALSE, finish_reason |-> "tool_calls", content |-> c,
           tool_calls |-> <<[name |-> n, arguments |-> a]>>] :
             c \in Thoughts, n \in RequestedTools, a \in Arguments}

\* a response that requests two tool calls at once
TwoToolCalls ==
    [raises |-> FALSE, finish_reason |-> "tool_calls", content |-> <<>>,
     tool_calls |-> <<[name |-> "t2", arguments |-> "{}"],
                      [name |-> "t1", arguments |-> "{}"]>>]

\* what call_tool may do: return a result with text content, or raise
ToolOutcomes == {"text", "raises"}

\* json.loads on the argument strings the model sends
json_loads(arguments) ==
    IF arguments = "{}" THEN [ok |-> TRUE, value |-> "{}"] ELSE [ok |-> FALSE, value |-> ""]

NoServiceError(function_name) ==
    <<"Error: Could not find service to execute tool", function_name>>
UnavailableError(function_name) ==
    <<"Error: The service required to execute tool", function_name, "is currently unavailable.">>
ParseError(function_name) ==
    <<"Error: Unable to parse parameters for tool", function_name>>
InternalError(function_name) ==
    <<"Error: An internal error occurred while calling tool", function_name>>
ModelError == <<"Error processing your request.">>

\* "Error: Language model client not configured." and "... model name not configured."
Missing == {"client", "model name"}
NotConfigured(missing) == <<"Error: Language", missing, "not configured.">>

IterationLimitPrefix ==
    <<"Processing your request exceeded the maximum iteration limit (",
      ToString(max_iterations), "). ">>
TokenIterationLimit ==
    <<"Processing exceeded maximum iteration limit (", ToString(max_iterations), ").">>

\* an entry of execution_trace; the trace a run returns is None when tracing is off
TraceEntry(role, name, content) == [role |-> role, name |-> name, content |-> content]
NoTrace == <<TraceEntry("None", "", <<>>)>>

\* a record a step-streamed run emits: a step (thinking or tool_call) with its id
\* and status, or the final record.  The id stands for the uuid4 of the step.
StepRecord(type, id, status) == [type |-> type, id |-> id, status |-> status, is_final |-> FALSE]
FinalRecord == [type |-> "None", id |-> 0, status |-> "", is_final |-> TRUE]

IdleRun ==
    [mode |-> "", pc |-> "idle", exit |-> "", iterations |-> 0, messages |-> <<>>,
     available_tools |-> {}, final_answer |-> <<>>, tool_calls |-> <<>>,
     target_session |-> None, result |-> <<>>, llm_calls |-> 0, invoked |-> <<>>,
     snapshot_owners |-> [x \in {} |-> NoUrl], request_owner |-> NoUrl,
     execution_trace |-> <<>>, trace |-> NoTrace, emitted |-> <<>>, raised |-> FALSE,
     offered |-> <<>>, tool_call_ids |-> <<>>]

\* the records are emitted by stream_process_query
emit(r, records) ==
    IF r.mode = "stream_process_query" THEN [r EXCEPT !.emitted = @ \o records] ELSE r

\* a fresh step id, and the id of the step that was started last
new_id(r) == Cardinality({i \in 1..Len(r.emitted) : r.emitted[i].status = "start"}) + 1
open_id(r) == Cardinality({i \in 1..Len(r.emitted) : r.emitted[i].status = "start"})

\* `if self.enable_trace: execution_trace.append(...)`, lines 201-202 and 266-267
record_trace(r, entry) ==
    IF r.mode = "process_query" /\ enable_trace
    THEN [r EXCEPT !.execution_trace = Append(@, entry)] ELSE r

\* `execution_trace if self.enable_trace else None`, lines 282 and 298
returned_trace(r) == IF r.mode = "process_query" /\ enable_trace THEN r.execution_trace
                     ELSE NoTrace

\* mutant: a run that lacks its configuration ends without a final record
return_silent_unconfigured(r, exit, result, trace) ==
    LET returned == [r EXCEPT !.pc = "done", !.exit = exit, !.result = result,
                              !.trace = trace]
    IN  IF exit = "not_configured" THEN returned ELSE emit(returned, <<FinalRecord>>)

\* the run returns, or emits its final record
return(r, exit, result, trace) ==
    emit([r EXCEPT !.pc = "done", !.exit = exit, !.result = result, !.trace = trace],
         <<FinalRecord>>)

\* the URL of the service that owns a tool
owner_url(tool_name) ==
    IF get_session_for_tool(tool_name) = None THEN NoUrl
    ELSE session_attrs[get_session_for_tool(tool_name)].url

get_all_tools == Range(tool_cache)

\* the statements after the loop: lines 294-298, 490-494 and 787-793
iteration_limit_result(r) ==
    IF r.mode = "stream_process_query_token"
    THEN IF r.final_answer # <<>> THEN r.final_answer ELSE TokenIterationLimit
    ELSE LET last_message == IF r.messages # <<>>
                             THEN r.messages[Len(r.messages)].content ELSE <<>>
         IN  IterationLimitPrefix \o last_message

\* mutant: the loop runs once more than max_iterations
loop_head_inclusive(r) ==
    IF r.iterations <= max_iterations
    THEN [r EXCEPT !.pc = "llm", !.iterations = @ + 1]
    ELSE return(r, "iteration_limit", iteration_limit_result(r), returned_trace(r))

\* `while iterations < self.max_iterations: iterations += 1`
loop_head(r) ==
    IF r.iterations < max_iterations
    THEN [r EXCEPT !.pc = "llm", !.iterations = @ + 1]
    ELSE return(r, "iteration_limit", iteration_limit_result(r), returned_trace(r))

\* mutant: the tool result is not added to the message history
append_tool_result_unrecorded(r, tool_result) ==
    LET appended == [r EXCEPT !.tool_calls = Tail(@), !.target_session = None,
                              !.request_owner = NoUrl]
    IN  IF appended.tool_calls # <<>> THEN [appended EXCEPT !.pc = "dispatch"]
        ELSE loop_head(appended)

\* the tool message is appended and the run goes on: with the next tool call of
\* the response (token mode's for loop), else with the next iteration
append_tool_result(r, tool_result) ==
    LET function_name == Head(r.tool_calls).name
        traced == record_trace(r, TraceEntry("tool", function_name, tool_result))
        completed == emit(traced, <<StepRecord("tool_call", open_id(r), "complete")>>)
        appended == [completed EXCEPT !.messages = Append(@, Message("tool", tool_result)),
                                      !.tool_call_ids = Append(@, Head(r.tool_calls).id),
                                      !.tool_calls = Tail(@), !.target_session = None,
                                      !.request_owner = NoUrl]
    IN  IF appended.tool_calls # <<>> THEN [appended EXCEPT !.pc = "dispatch"]
        ELSE loop_head(appended)

\* what the run substitutes for arguments that json.loads rejects: line 402 and
\* line 696
substituted_args(mode) ==
    IF mode = "stream_process_query" THEN "{error}" ELSE "{}"

\* mutant: the tool is called on the session that owns it, healthy or not
dispatch_no_health_check(r) ==
    LET tool_call == Head(r.tool_calls)
        function_name == tool_call.name
        parsed == json_loads(tool_call.arguments)
        function_args == IF parsed.ok THEN parsed.value ELSE substituted_args(r.mode)
        target_session == get_session_for_tool(function_name)
    IN  IF r.mode = "process_query" /\ ~parsed.ok
        THEN append_tool_result(r, ParseError(function_name))
        ELSE IF target_session = None
        THEN append_tool_result(r, NoServiceError(function_name))
        ELSE [r EXCEPT !.pc = "calling", !.target_session = target_session,
                       !.invoked = Append(@, [session |-> target_session,
                                              name |-> function_name,
                                              arguments |-> function_args])]

\* the execution of tool_calls[1] up to the await of call_tool: lines 226-250,
\* 399-436 and 691-731
dispatch(r) ==
    LET tool_call == Head(r.tool_calls)
        function_name == tool_call.name
        parsed == json_loads(tool_call.arguments)
        function_args == IF parsed.ok THEN parsed.value ELSE substituted_args(r.mode)
        target_session == get_session_for_tool(function_name)
        session_url == IF target_session \in DOMAIN session_attrs
                       THEN session_attrs[target_session].url ELSE "unknown_url"
    IN  IF r.mode = "process_query" /\ ~parsed.ok
        THEN append_tool_result(r, ParseError(function_name))
        ELSE IF target_session = None
        THEN append_tool_result(r, NoServiceError(function_name))
        ELSE IF ~is_service_healthy(session_url)
        THEN append_tool_result(r, UnavailableError(function_name))
        ELSE [r EXCEPT !.pc = "calling", !.target_session = target_session,
                       !.invoked = Append(@, [session |-> target_session,
                                              name |-> function_name,
                                              arguments |-> function_args])]

\* the parsing of call_tool's return value: lines 252-262
tool_result_of(outcome, function_name) ==
    CASE outcome = "text" -> <<"result">>
      [] outcome = "raises" -> InternalError(function_name)

\* the run starts: the tool snapshot, the first two messages, the first loop test
start_run(mode) ==
    loop_head([IdleRun EXCEPT !.mode = mode,
                              !.available_tools = get_all_tools,
                              !.snapshot_owners =
                                  [t \in DOMAIN tool_to_session_map |-> owner_url(t)],
                              !.messages = <<Message("system", <<"system_prompt">>),
                                             Message("user", <<"query">>)>>])

\* the run starts without a model client, or without a model name in llm_config
start_unconfigured(mode, missing) ==
    IF missing = "client"
    THEN return([IdleRun EXCEPT !.mode = mode], "not_configured", NotConfigured(missing),
                NoTrace)
    ELSE LET started == start_run(mode)
         IN  IF started.pc = "llm"
             THEN return(started, "not_configured", NotConfigured(missing), NoTrace)
             ELSE started

agent_start_unconfigured(mode, missing) ==
    /\ run.pc = "idle"
    /\ run' = start_unconfigured(mode, missing)

agent_start(mode) ==
    /\ run.pc = "idle"
    /\ run' = start_run(mode)

\* mutant: after a model call that raised the loop goes on to its next iteration
model_raised_continues(r) == loop_head(r)

\* `except Exception as e:` around the model call, lines 289-292 and 485-488
model_raised(r) == return(r, "model_error", ModelError, NoTrace)

\* the tool calls of the k-th model response of a run, each with its id (the ids
\* are the model's; they are distinct)
identified(tool_calls, k) ==
    [i \in 1..Len(tool_calls) |->
        [name |-> tool_calls[i].name, arguments |-> tool_calls[i].arguments,
         id |-> 10 * k + i]]

\* mutant: each model call is given the tools that are registered at that moment
offered_tools_current(r) == get_all_tools

\* `tools=available_tools if available_tools else None`, lines 192, 349 and 578
offered_tools(r) == r.available_tools

\* the model call of the iteration returns (or raises) and the run goes on to its
\* next suspension
model_call(r, response) ==
    LET called == [r EXCEPT !.llm_calls = @ + 1, !.raised = response.raises,
                            !.offered = Append(@, offered_tools(r))]
        token == r.mode = "stream_process_query_token"
        heard == IF token THEN [called EXCEPT !.final_answer = @ \o response.content]
                 ELSE emit(record_trace(called, TraceEntry("assistant", "", response.content)),
                           <<StepRecord("thinking", new_id(r), "start")>>)
        thought == emit(heard, <<StepRecord("thinking", open_id(heard), "complete")>>)
        requested == identified(response.tool_calls, called.llm_calls)
        asked == [thought EXCEPT !.messages = Append(@, Message("assistant", NoContent)),
                                 !.tool_call_ids = Append(@, Head(requested).id),
                                 !.tool_calls = IF token THEN requested
                                                ELSE <<Head(requested)>>,
                                 !.request_owner =
                                     owner_url(Head(response.tool_calls).name)]
    IN  IF response.raises
        THEN model_raised(called)
        ELSE IF response.finish_reason = "tool_calls" /\ response.tool_calls # <<>>
        THEN IF r.mode = "process_query" THEN dispatch(asked)
             ELSE [emit(asked, <<StepRecord("tool_call", new_id(asked), "start")>>)
                      EXCEPT !.pc = "dispatch"]
        ELSE IF token
        THEN return([heard EXCEPT !.messages = Append(@, Message("assistant",
                                                                 response.content))],
                    "final_answer", heard.final_answer, NoTrace)
        ELSE return(thought, "final_answer", strip(response.content), returned_trace(thought))

agent_model_call(response) ==
    /\ run.pc = "llm"
    /\ run' = model_call(run, response)

\* a streaming run resumes after the record that announces the tool call
agent_dispatch ==
    /\ run.pc = "dispatch"
    /\ run' = dispatch(run)

\* mutant: an exception of call_tool reaches the handler of the model call and
\* ends the run
agent_tool_returns_propagate(outcome) ==
    /\ run.pc = "calling"
    /\ run' = IF outcome = "raises"
              THEN return(run, "model_error", ModelError, NoTrace)
              ELSE append_tool_result(run, tool_result_of(outcome, Head(run.tool_calls).name))

\* call_tool returns or raises
agent_tool_returns(outcome) ==
    /\ run.pc = "calling"
    /\ run' = append_tool_result(run, tool_result_of(outcome, Head(run.tool_calls).name))

(***************************************************************************)
(* The /query requests (main.py, client.py).  A request runs the agent's   *)
(* process_query through process_query_with_trace (include_trace) or       *)
(* through process_query_with_react.  Its position is "idle", "running"    *)
(* (inside process_query; its run record says where) or "returned".        *)
(***************************************************************************)
Queries == {"q1", "q2"}

\* the methods of the orchestrator that the endpoints call
Entries == {"process_query_with_trace", "process_query_with_react", "process_query",
            "stream_process_query"}

IdleQuery ==
    [entry |-> "", pc |-> "idle", original_trace_setting |-> FALSE, run |-> IdleRun,
     result |-> <<>>, trace |-> NoTrace]

\* the run a method starts: the agent's process_query or stream_process_query, or
\* the single round of the orchestrator's own process_query ("standard")
entry_mode(entry) ==
    CASE entry = "stream_process_query" -> "stream_process_query"
      [] entry = "process_query" -> "standard"
      [] OTHER -> "process_query"

UnexpectedError == <<"Error: An unexpected error occurred while processing your request.">>

\* MCPOrchestrator.process_query, lines 352-394: the model call and what follows
\* it up to the await of call_tool or the return
standard_model_call(r, response) ==
    LET called == [r EXCEPT !.llm_calls = @ + 1, !.raised = response.raises]
        tool_call == Head(response.tool_calls)
        function_name == tool_call.name
        parsed == json_loads(tool_call.arguments)
        target_session == get_session_for_tool(function_name)
        session_url == IF target_session \in DOMAIN session_attrs
                       THEN session_attrs[target_session].url ELSE "unknown_url"
    IN  IF response.raises THEN return(called, "model_error", UnexpectedError, NoTrace)
        ELSE IF response.finish_reason = "tool_calls" /\ response.tool_calls # <<>>
        THEN IF ~parsed.ok
             THEN return(called, "tool_error", ParseError(function_name), NoTrace)
             ELSE IF target_session = None
             THEN return(called, "tool_error", NoServiceError(function_name), NoTrace)
             ELSE IF ~is_service_healthy(session_url)
             THEN return(called, "tool_error", UnavailableError(function_name), NoTrace)
             ELSE [called EXCEPT !.pc = "calling", !.target_session = target_session,
                                 !.tool_calls = identified(<<tool_call>>, 1),
                                 !.invoked = Append(@, [session |-> target_session,
                                                        name |-> function_name,
                                                        arguments |-> parsed.value])]
        ELSE return(called, "final_answer", strip(response.content), NoTrace)

\* lines 380-385: call_tool returns or raises and process_query returns
standard_tool_returns(r, outcome) ==
    return(r, "tool_result", tool_result_of(outcome, Head(r.tool_calls).name), NoTrace)

\* mutant: a tool call that raises detaches the service that owns the session
after_call_tool_detach_on_failure(outcome, target_session) ==
    IF outcome = "raises" /\ target_session \in DOMAIN session_attrs
                          /\ session_attrs[target_session].url \in DOMAIN sessions
    THEN remove_service(session_attrs[target_session].url)
    ELSE CurrentRegistry

\* the registry after call_tool has returned or raised: the handlers only log
\* (react_agent.py:260-262, client.py:385)
after_call_tool(outcome, target_session) == CurrentRegistry

\* process_query_with_trace, lines 421-422: save the flag and set it
query_start(qrec, entry) ==
    [IdleQuery EXCEPT !.entry = entry, !.pc = "running",
                      !.original_trace_setting = enable_trace,
                      !.run = start_run(entry_mode(entry))]

\* the run has made a step; when it has returned, so does the method:
\* process_query_with_trace returns the result and the trace (line 430),
\* the other methods the result
query_step(qrec, r) ==
    IF r.pc = "done"
    THEN [qrec EXCEPT !.run = r, !.pc = "returned", !.result = r.result,
                      !.trace = IF qrec.entry = "process_query_with_trace" THEN r.trace
                                ELSE NoTrace]
    ELSE [qrec EXCEPT !.run = r]

\* process_query_with_trace, line 428: restore the flag after process_query
flag_after_step(qrec, r) ==
    IF r.pc = "done" /\ qrec.entry = "process_query_with_trace"
    THEN qrec.original_trace_setting ELSE enable_trace

(***************************************************************************)
(* The orchestrator under concurrent requests and background loops.        *)
(***************************************************************************)
\* The event loop runs its ready callbacks in the order they were scheduled.  The
\* disconnect tasks that the heartbeat tick gathers (line 263) are scheduled when
\* the tick suspends, so before they run another task runs at most the one step
\* it was already scheduled for, and no probe of the tick has its answer yet.
LoopTask == 0

Scheduled(k) ==
    /\ urls_timed_out # {} => k \notin ran
    /\ ran' = IF urls_timed_out # {} THEN ran \cup {k} ELSE ran
    /\ UNCHANGED <<hist, outside>>

Unscheduled == UNCHANGED <<hist, outside, ran>>

GatherStep ==
    /\ ran' = IF urls_timed_out' = {} THEN {} ELSE ran
    /\ UNCHANGED <<hist, outside>>

DefaultManifest == [u \in URLs |-> IF u = "uA" THEN <<"t1", "t2">> ELSE <<"t2", "t3">>]

Manifests == UNION {[1..n -> ToolNames] : n \in 0..MaxManifest}

InitWith(m) ==
    /\ sessions = EmptyDict
    /\ service_health = EmptyDict
    /\ tool_cache = EmptyDict
    /\ tool_to_session_map = EmptyDict
    /\ service_names = EmptyDict
    /\ pending_reconnection = {}
    /\ tasks = [k \in TaskIds |-> IdleTask]
    /\ created = 0
    /\ session_attrs = EmptyDict
    /\ now = 0
    /\ urls_timed_out = {}
    /\ probe_tasks = {}
    /\ manifest = m
    /\ hist = <<>>
    /\ server_up = URLs
    /\ ran = {}
    /\ run = IdleRun
    /\ enable_trace = FALSE
    /\ queries = [q \in Queries |-> IdleQuery]
    /\ twin = IdleRun
    /\ heartbeat_task = None
    /\ reconnection_task = None
    /\ loop_tasks = <<>>
    /\ released = {}
    /\ cleanup_pc = "idle"
    /\ start_calls = 0

Init == InitWith(DefaultManifest)

\* Under concurrency the servers fail in the two ways that differ in their effect
\* on the shared state: a 502 at the stream open (the /register endpoint adds the
\* URL to the pending set) and a protocol timeout (it does not).  The other
\* exception classes and the connect retries are exercised by SpecAttach.
ConcurrentOpenExceptions ==
    {e \in OpenExceptions : e.class = "HTTPStatusError" /\ e.code = 502}
ConcurrentProtocolExceptions ==
    {e \in ProtocolExceptions :
        e.class = "TimeoutError" /\ e.text = <<"All", "connection", "attempts", "failed">>}

Register == \E k \in Requests, u \in URLs :
                register_service_endpoint(k, u, "") /\ Scheduled(k)
Respond == \E k \in Requests : register_respond(k) /\ Scheduled(k)
RemoveService == \E u \in URLs : remove_service_endpoint(u) /\ Unscheduled
OpenOk == \E k \in TaskIds : connect_open_ok(k) /\ Scheduled(k)
OpenError == \E k \in TaskIds, e \in ConcurrentOpenExceptions :
                 connect_open_error(k, e) /\ Scheduled(k)
InitializeOk == \E k \in TaskIds : connect_initialize_ok(k) /\ Scheduled(k)
InitializeError == \E k \in TaskIds, e \in ConcurrentProtocolExceptions :
                       connect_initialize_error(k, e) /\ Scheduled(k)
ListToolsOk == \E k \in TaskIds : connect_commit(k) /\ Scheduled(k)
ListToolsError == \E k \in TaskIds, e \in ConcurrentProtocolExceptions :
                      connect_list_tools_error(k, e) /\ Scheduled(k)
ReconnectTick == attempt_reconnections /\ Scheduled(LoopTask)
ReconnectChild == \E u \in URLs : reconnect_child_start(u) /\ Scheduled(Child(u))
ReconnectDone == attempt_reconnections_done /\ Scheduled(LoopTask)
HeartbeatTick == check_all_services /\ Unscheduled
HeartbeatDisconnect == \E u \in URLs : heartbeat_disconnect(u) /\ GatherStep
HeartbeatProbe == \E u \in URLs, healthy \in BOOLEAN :
                      send_one_heartbeat(u, healthy) /\ urls_timed_out = {} /\ Unscheduled
Tick == Advance /\ Unscheduled

Next ==
    \/ Register \/ Respond \/ RemoveService
    \/ OpenOk \/ OpenError \/ InitializeOk \/ InitializeError
    \/ ListToolsOk \/ ListToolsError
    \/ ReconnectTick \/ ReconnectChild \/ ReconnectDone
    \/ HeartbeatTick \/ HeartbeatDisconnect \/ HeartbeatProbe
    \/ Tick

Spec == Init /\ [][Next]_vars

(***************************************************************************)
(* Attach in detail: /register requests, one at a time, against servers    *)
(* that fail in every way connect_service distinguishes, with the connect  *)
(* retries.                                                                *)
(***************************************************************************)
AttachRegister == \E u \in URLs, p \in PayloadNames :
                      register_service_endpoint(1, u, p) /\ Scheduled(1)
AttachOpenError == \E k \in TaskIds, e \in OpenExceptions :
                       connect_open_error(k, e) /\ Scheduled(k)
AttachInitializeError == \E k \in TaskIds, e \in ProtocolExceptions :
                             connect_initialize_error(k, e) /\ Scheduled(k)
AttachListToolsError == \E k \in TaskIds, e \in ProtocolExceptions :
                            connect_list_tools_error(k, e) /\ Scheduled(k)

NextAttach ==
    \/ AttachRegister \/ Respond
    \/ OpenOk \/ AttachOpenError \/ InitializeOk \/ AttachInitializeError
    \/ ListToolsOk \/ AttachListToolsError

SpecAttach == Init /\ [][NextAttach]_vars

\* Every await of connect_service ends: the stream open, initialize and list_tools
\* return or raise within their 30-second budgets, and the endpoint then answers.
ConnectStep(k) ==
    \/ connect_open_ok(k) /\ Scheduled(k)
    \/ \E e \in OpenExceptions : connect_open_error(k, e) /\ Scheduled(k)
    \/ connect_initialize_ok(k) /\ Scheduled(k)
    \/ \E e \in ProtocolExceptions :
           connect_initialize_error(k, e) /\ Scheduled(k)
    \/ connect_commit(k) /\ Scheduled(k)
    \/ \E e \in ProtocolExceptions :
           connect_list_tools_error(k, e) /\ Scheduled(k)

SpecAttachFair ==
    /\ SpecAttach
    /\ \A k \in Requests : WF_vars(ConnectStep(k))
    /\ WF_vars(Respond)


(***************************************************************************)
(* A sequential client: one /register or /remove_service request at a      *)
(* time against servers that answer, no background loop running.  The      *)
(* manifests of the servers are arbitrary; hist logs every completed       *)
(* operation with the registry it left behind.                             *)
(***************************************************************************)
Quiet == \A k \in TaskIds : tasks[k].pc = "idle"

Snapshot(s, n, c, m) ==
    [sessions |-> s, service_names |-> n, tool_cache |-> c, tool_to_session_map |-> m]

InitSeq == \E m \in [URLs -> Manifests] : InitWith(m)

SeqRegister == \E u \in URLs, p \in PayloadNames :
                   /\ Quiet
                   /\ Len(hist) < MaxHist
                   /\ register_service_endpoint(1, u, p)
                   /\ Scheduled(1)

SeqListToolsOk ==
    /\ connect_commit(1)
    /\ UNCHANGED <<outside, ran>>
    /\ hist' = Append(hist, [op |-> "attach", url |-> tasks[1].url, name |-> tasks[1].name,
                             session |-> tasks[1].session,
                             added |-> tasks'[1].result.added,
                             reg |-> Snapshot(sessions', service_names', tool_cache',
                                              tool_to_session_map')])

SeqRemoveService == \E u \in DOMAIN sessions :
                        /\ Quiet
                        /\ Len(hist) < MaxHist
                        /\ remove_service_endpoint(u)
                        /\ UNCHANGED <<outside, ran>>
                        /\ hist' = Append(hist, [op |-> "detach", url |-> u, name |-> "",
                                                 session |-> sessions[u], added |-> <<>>,
                                                 reg |-> Snapshot(sessions', service_names',
                                                                  tool_cache',
                                                                  tool_to_session_map')])

NextSeq ==
    \/ SeqRegister \/ OpenOk \/ InitializeOk \/ SeqListToolsOk \/ Respond
    \/ SeqRemoveService

SpecSeq == InitSeq /\ [][NextSeq]_vars


(***************************************************************************)
(* The background loops against servers that go down and come back.  A     *)
(* server that is down answers neither its /health nor its SSE endpoint: a  *)
(* probe fails, a stream open ends with the 502 of the gateway, initialize  *)
(* and list_tools time out.  The client registers services that are        *)
(* neither attached nor pending reconnection, one at a time.  The clock is  *)
(* read through a window: only the comparison of a heartbeat's age with     *)
(* heartbeat_timeout matters, so once now has reached MaxTime the           *)
(* timestamps slide down instead, an age saturating above the timeout.     *)
(***************************************************************************)
WindowFloor == MaxTime - heartbeat_timeout - 1

AdvanceWindow ==
    /\ IF now < MaxTime
       THEN /\ now' = now + 1
            /\ UNCHANGED service_health
       ELSE /\ now' = now
            /\ service_health' =
                   [u \in DOMAIN service_health |->
                       IF service_health[u] > WindowFloor
                       THEN service_health[u] - 1 ELSE service_health[u]]
    /\ UNCHANGED <<sessions, tool_cache, tool_to_session_map, service_names,
                   pending_reconnection, tasks, created, session_attrs, urls_timed_out,
                   probe_tasks, manifest>>

GatewayError == [class |-> "HTTPStatusError", code |-> 502, text |-> <<"status">>]
ProtocolTimeout == [class |-> "TimeoutError", code |-> 0,
                    text |-> <<"All", "connection", "attempts", "failed">>]

\* the await a connect_service call is suspended in ends as its server decides
server_step(k) ==
    IF tasks[k].url \in server_up
    THEN connect_open_ok(k) \/ connect_initialize_ok(k) \/ connect_commit(k)
    ELSE \/ connect_open_error(k, GatewayError)
         \/ connect_initialize_error(k, ProtocolTimeout)
         \/ connect_list_tools_error(k, ProtocolTimeout)

\* the servers that go down; the other server is a bystander that stays up
FailingServers == {"uA"}

ServerDown == \E u \in server_up \cap FailingServers :
                  /\ server_up' = server_up \ {u}
                  /\ UNCHANGED <<registry, pending_reconnection, tasks, created,
                                 session_attrs, now, urls_timed_out, probe_tasks,
                                 manifest, hist, ran, run, enable_trace, queries, twin,
                                 lifecycle>>
ServerUp == \E u \in URLs \ server_up :
                /\ server_up' = server_up \cup {u}
                /\ UNCHANGED <<registry, pending_reconnection, tasks, created,
                               session_attrs, now, urls_timed_out, probe_tasks,
                               manifest, hist, ran, run, enable_trace, queries, twin,
                                 lifecycle>>

RegisterNew == \E u \in URLs :
                   /\ u \notin DOMAIN sessions
                   /\ u \notin pending_reconnection
                   /\ register_service_endpoint(1, u, "")
                   /\ Scheduled(1)
ServerStep(k) == server_step(k) /\ Scheduled(k)
ReconnectChildOf(u) == reconnect_child_start(u) /\ Scheduled(Child(u))
DisconnectOf(u) == heartbeat_disconnect(u) /\ GatherStep
ProbeOf(u) == send_one_heartbeat(u, u \in server_up) /\ urls_timed_out = {} /\ Unscheduled
Clock == AdvanceWindow /\ Unscheduled

NextHeartbeat ==
    \/ RegisterNew \/ Respond
    \/ \E k \in TaskIds : ServerStep(k)
    \/ ReconnectTick \/ (\E u \in URLs : ReconnectChildOf(u)) \/ ReconnectDone
    \/ HeartbeatTick \/ (\E u \in URLs : DisconnectOf(u)) \/ (\E u \in URLs : ProbeOf(u))
    \/ Clock
    \/ ServerDown \/ ServerUp

SpecHeartbeat == Init /\ [][NextHeartbeat]_vars

\* The loops sleep for their interval and run again, the tasks they gather are
\* scheduled by the event loop, every await of connect_service ends within its
\* budget, and time passes.  Nothing is assumed of the client or the servers.
SpecHeartbeatFair ==
    /\ SpecHeartbeat
    /\ WF_vars(HeartbeatTick) /\ WF_vars(ReconnectTick) /\ WF_vars(ReconnectDone)
    /\ WF_vars(Clock) /\ WF_vars(Respond)
    /\ \A u \in URLs : WF_vars(DisconnectOf(u)) /\ WF_vars(ProbeOf(u))
                        /\ WF_vars(ReconnectChildOf(u))
    /\ \A k \in TaskIds : WF_vars(ServerStep(k))


(***************************************************************************)
(* One agent run, in any of its three modes, while services are attached,  *)
(* removed and expired.  The model answers anything it can answer and      *)
(* call_tool ends in any way it can end.                                   *)
(***************************************************************************)
AgentTask == 0 - 1

\* A step of a task that runs the agent.  It is a task of the event loop like the
\* others.
RunStep ==
    /\ urls_timed_out # {} => AgentTask \notin ran
    /\ ran' = IF urls_timed_out # {} THEN ran \cup {AgentTask} ELSE ran
    /\ UNCHANGED <<registry, pending_reconnection, tasks, created, session_attrs, now,
                   urls_timed_out, probe_tasks, manifest, hist, server_up, lifecycle>>

\* A step of the run.
AgentStep == RunStep /\ UNCHANGED <<enable_trace, queries, twin>>

\* The model call of process_query and the first model call of
\* stream_process_query are made without an await since the run's last
\* suspension (lines 157-187, 315-342: the client is called synchronously), so no
\* other task runs before the response is there.
SyncRegion ==
    /\ run.pc = "llm"
    /\ \/ run.mode = "process_query"
       \/ run.mode = "stream_process_query" /\ run.iterations = 1

AgentStart == \E mode \in Modes : agent_start(mode) /\ AgentStep
AgentModelCall == \E response \in ModelResponses : agent_model_call(response) /\ AgentStep
AgentDispatch == agent_dispatch /\ AgentStep
AgentToolReturns == \E outcome \in ToolOutcomes : agent_tool_returns(outcome) /\ AgentStep

AgentRegister == \E u \in URLs : register_service_endpoint(1, u, "") /\ Scheduled(1)

\* The rest of the program while the run is in progress: /register and
\* /remove_service requests, one at a time, and the passing of time, by which a
\* service that is not probed expires.
AgentEnvironment ==
    /\ ~SyncRegion
    /\ run.pc # "done"
    /\ \/ AgentRegister \/ OpenOk \/ InitializeOk \/ ListToolsOk \/ Respond
       \/ RemoveService
       \/ Tick

NextAgent ==
    \/ AgentStart \/ AgentModelCall \/ AgentDispatch \/ AgentToolReturns
    \/ AgentEnvironment

SpecAgent == Init /\ [][NextAgent]_vars

\* Termination of a run: the services are attached before the run starts and are
\* removed or expire at any moment of it.  The model call and call_tool return or
\* raise, and a streaming run is resumed by its consumer.
AgentAttach ==
    /\ run.pc = "idle"
    /\ (AgentRegister \/ OpenOk \/ InitializeOk \/ ListToolsOk \/ Respond)

AgentFailures ==
    /\ ~SyncRegion
    /\ run.pc # "done"
    /\ (RemoveService \/ Tick)

AgentRun == AgentModelCall \/ AgentDispatch \/ AgentToolReturns

NextAgentFair ==
    \/ AgentStart \/ AgentModelCall \/ AgentDispatch \/ AgentToolReturns
    \/ AgentAttach \/ AgentFailures

SpecAgentFair == Init /\ [][NextAgentFair]_vars /\ WF_vars(AgentRun)

(***************************************************************************)
(* One run against a model that may request two tool calls in one          *)
(* response, and against an agent that may lack its model configuration.   *)
(***************************************************************************)
DriverResponses == ModelResponses \cup {TwoToolCalls}

DriverStartUnconfigured ==
    \E mode \in Modes, missing \in Missing : agent_start_unconfigured(mode, missing) /\ AgentStep

DriverModelCall == \E response \in DriverResponses : agent_model_call(response) /\ AgentStep

NextDriver ==
    \/ AgentStart \/ DriverStartUnconfigured
    \/ DriverModelCall \/ AgentDispatch \/ AgentToolReturns
    \/ AgentAttach \/ AgentFailures

SpecDriver == Init /\ [][NextDriver]_vars

(***************************************************************************)
(* Concurrent queries on one agent.  The services are attached before the  *)
(* queries arrive; no attach, detach or heartbeat happens while they run.  *)
(* A query that is between a suspension and its next model response holds  *)
(* the event loop (the model client is synchronous).                       *)
(***************************************************************************)
QueryResponses ==
    {response \in ModelResponses :
        \/ response.raises
        \/ response.finish_reason = "stop"
        \/ response.content = <<"thinking">> /\ response.tool_calls[1].arguments = "{}"}

HoldsLoop(qrec) ==
    /\ qrec.pc = "running"
    /\ qrec.run.pc = "llm"
    /\ \/ qrec.run.mode \in {"process_query", "standard"}
       \/ qrec.run.mode = "stream_process_query" /\ qrec.run.iterations = 1

MayRun(q) == \A p \in Queries \ {q} : ~HoldsLoop(queries[p])

QueryFrame ==
    /\ UNCHANGED <<pending_reconnection, tasks, created, session_attrs, now,
                   urls_timed_out, probe_tasks, manifest, hist, server_up, ran, run, twin,
                   lifecycle>>

QueryStart == \E q \in Queries, entry \in Entries :
    /\ queries[q].pc = "idle"
    /\ q = "q2" => queries["q1"].pc # "idle"
    /\ MayRun(q)
    /\ queries' = [queries EXCEPT ![q] = query_start(@, entry)]
    /\ enable_trace' = IF entry = "process_query_with_trace" THEN TRUE ELSE enable_trace
    /\ UNCHANGED registry
    /\ QueryFrame

QueryModelCall == \E q \in Queries, response \in QueryResponses :
    /\ queries[q].pc = "running"
    /\ queries[q].run.pc = "llm"
    /\ MayRun(q)
    /\ \E r \in {IF queries[q].run.mode = "standard"
                  THEN standard_model_call(queries[q].run, response)
                  ELSE model_call(queries[q].run, response)} :
           /\ queries' = [queries EXCEPT ![q] = query_step(@, r)]
           /\ enable_trace' = flag_after_step(queries[q], r)
    /\ UNCHANGED registry
    /\ QueryFrame

QueryDispatch == \E q \in Queries :
    /\ queries[q].pc = "running"
    /\ queries[q].run.pc = "dispatch"
    /\ MayRun(q)
    /\ \E r \in {dispatch(queries[q].run)} :
           /\ queries' = [queries EXCEPT ![q] = query_step(@, r)]
           /\ enable_trace' = flag_after_step(queries[q], r)
    /\ UNCHANGED registry
    /\ QueryFrame

QueryToolReturns == \E q \in Queries, outcome \in ToolOutcomes :
    /\ queries[q].pc = "running"
    /\ queries[q].run.pc = "calling"
    /\ MayRun(q)
    /\ \E r \in {IF queries[q].run.mode = "standard"
                  THEN standard_tool_returns(queries[q].run, outcome)
                  ELSE append_tool_result(queries[q].run,
                           tool_result_of(outcome, Head(queries[q].run.tool_calls).name))} :
           /\ queries' = [queries EXCEPT ![q] = query_step(@, r)]
           /\ enable_trace' = flag_after_step(queries[q], r)
    /\ SetRegistry(after_call_tool(outcome, queries[q].run.target_session))
    /\ QueryFrame

QueriesAttach ==
    /\ \A q \in Queries : queries[q].pc = "idle"
    /\ (AgentRegister \/ OpenOk \/ InitializeOk \/ ListToolsOk \/ Respond)

NextQueries ==
    \/ QueryStart \/ QueryModelCall \/ QueryDispatch \/ QueryToolReturns
    \/ QueriesAttach

SpecQueries == Init /\ [][NextQueries]_vars

(***************************************************************************)
(* process_query (run) and stream_process_query (twin) side by side: both  *)
(* get the same model responses and the same tool outcomes and look the    *)
(* tool up in the same registry state.  The step-streamed run is resumed   *)
(* at once after each record, so its dispatch follows its model call in    *)
(* the same step.                                                          *)
(***************************************************************************)
resumed(r) == IF r.pc = "dispatch" THEN dispatch(r) ELSE r

TwinStart ==
    /\ run.pc = "idle" /\ twin.pc = "idle"
    /\ run' = start_run("process_query")
    /\ twin' = start_run("stream_process_query")
    /\ RunStep /\ UNCHANGED <<enable_trace, queries>>

TwinModelCall == \E response \in ModelResponses :
    /\ run.pc = "llm" /\ twin.pc = "llm"
    /\ run' = model_call(run, response)
    /\ twin' = resumed(model_call(twin, response))
    /\ RunStep /\ UNCHANGED <<enable_trace, queries>>

TwinToolReturns == \E outcome \in ToolOutcomes :
    /\ run.pc = "calling" /\ twin.pc = "calling"
    /\ run' = append_tool_result(run, tool_result_of(outcome, Head(run.tool_calls).name))
    /\ twin' = append_tool_result(twin, tool_result_of(outcome, Head(twin.tool_calls).name))
    /\ RunStep /\ UNCHANGED <<enable_trace, queries>>

NextTwin ==
    \/ TwinStart \/ TwinModelCall \/ TwinToolReturns
    \/ AgentAttach \/ AgentFailures

SpecTwin == Init /\ [][NextTwin]_vars

(***************************************************************************)
(* The monitoring tasks and teardown.  The lifespan of the application     *)
(* calls start_monitoring at startup and cleanup at shutdown, after the    *)
(* server has stopped serving requests.                                    *)
(***************************************************************************)
MaxStarts == 2

LoopTask_(loop) == [loop |-> loop, state |-> "running"]

\* Task.done()
done(handle) == loop_tasks[handle].state # "running"

\* mutant: start_monitoring creates its tasks whatever the handles hold
needs_task_always(handle) == TRUE

\* lines 63, 67: if self.x_task is None or self.x_task.done()
needs_task(handle) == handle = None \/ done(handle)

Running(loop) == {i \in DOMAIN loop_tasks :
                     loop_tasks[i].loop = loop /\ loop_tasks[i].state = "running"}

\* lines 61-70
start_monitoring ==
    LET heartbeat == needs_task(heartbeat_task)
        with_heartbeat == IF heartbeat THEN Append(loop_tasks, LoopTask_("heartbeat"))
                          ELSE loop_tasks
        reconnection == needs_task(reconnection_task)
        with_both == IF reconnection
                     THEN Append(with_heartbeat, LoopTask_("reconnection"))
                     ELSE with_heartbeat
    IN  /\ heartbeat_task' = IF heartbeat THEN Len(with_heartbeat) ELSE heartbeat_task
        /\ reconnection_task' = IF reconnection THEN Len(with_both) ELSE reconnection_task
        /\ loop_tasks' = with_both
        /\ start_calls' = start_calls + 1
        /\ UNCHANGED <<registry, pending_reconnection, tasks, created, session_attrs, now,
                       urls_timed_out, probe_tasks, manifest, hist, server_up, ran, run,
                       enable_trace, queries, twin, released, cleanup_pc>>

\* Task.cancel() of lines 76-77, guarded by "if task and not task.done()"
cancel(handle) ==
    IF handle # None /\ ~done(handle)
    THEN [loop_tasks EXCEPT ![handle].state = "cancelled"]
    ELSE loop_tasks

\* lines 72-80, first task: the heartbeat loop is cancelled and awaited.  The
\* loop is suspended in its sleep or in one of the two gathers of its tick; the
\* cancellation of a gather cancels the tasks it waits for.  The probes of a
\* tick that waits for its disconnect tasks are tasks of their own.
stop_monitoring_heartbeat ==
    /\ cleanup_pc = "idle"
    /\ cleanup_pc' = "reconnection"
    /\ loop_tasks' = cancel(heartbeat_task)
    /\ IF loop_tasks' # loop_tasks
       THEN /\ urls_timed_out' = {}
            /\ probe_tasks' = IF urls_timed_out # {} THEN probe_tasks ELSE {}
            /\ ran' = {}
       ELSE UNCHANGED <<urls_timed_out, probe_tasks, ran>>
    /\ UNCHANGED <<registry, pending_reconnection, tasks, created, session_attrs, now,
                   manifest, hist, server_up, run, enable_trace, queries, twin,
                   heartbeat_task, reconnection_task, released, start_calls>>

\* lines 72-80, second task: the reconnection loop is cancelled and awaited,
\* and with it the connect_service calls its tick gathers
stop_monitoring_reconnection ==
    /\ cleanup_pc = "reconnection"
    /\ cleanup_pc' = "aclose"
    /\ loop_tasks' = cancel(reconnection_task)
    /\ IF loop_tasks' # loop_tasks
       THEN tasks' = [k \in TaskIds |-> IF k \in Children THEN IdleTask ELSE tasks[k]]
       ELSE UNCHANGED tasks
    /\ UNCHANGED <<registry, pending_reconnection, created, session_attrs, now,
                   urls_timed_out, probe_tasks, manifest, hist, server_up, ran, run,
                   enable_trace, queries, twin, heartbeat_task, reconnection_task,
                   released, start_calls>>

\* mutant: teardown closes the streams of the sessions that are still registered
aclose_registered == {s \in 1..created : s \in Range(sessions)}

\* AsyncExitStack.aclose(): every context entered at lines 110 and 115 is
\* exited, and so is the HTTP client entered by setup
aclose == 1..created

\* the streams that are open: entered into the exit stack and not closed
exit_stack == (1..created) \ released

\* lines 83-84 and 462-470: the handles are cleared, the exit stack is closed
\* and the HTTP client forgotten; a probe still waiting for its answer fails
cleanup_aclose ==
    /\ cleanup_pc = "aclose"
    /\ cleanup_pc' = "done"
    /\ heartbeat_task' = None
    /\ reconnection_task' = None
    /\ released' = aclose
    /\ probe_tasks' = {}
    /\ UNCHANGED <<registry, pending_reconnection, tasks, created, session_attrs, now,
                   urls_timed_out, manifest, hist, server_up, ran, run, enable_trace,
                   queries, twin, loop_tasks, start_calls>>

Serving == cleanup_pc = "idle"

StartMonitoring == start_monitoring /\ Serving /\ start_calls < MaxStarts
StopHeartbeat == stop_monitoring_heartbeat /\ \A k \in Requests : tasks[k].pc = "idle"
StopReconnection == stop_monitoring_reconnection
Aclose == cleanup_aclose
MonitoringRegister == Serving /\ \E u \in URLs :
                          /\ \A k \in Requests : tasks[k].pc = "idle"
                          /\ register_service_endpoint(1, u, "")
                          /\ Scheduled(1)
MonitoringRemove == Serving /\ RemoveService
MonitoringHeartbeatTick == Running("heartbeat") # {} /\ HeartbeatTick
MonitoringReconnectTick == Running("reconnection") # {} /\ ReconnectTick
MonitoringReconnectDone == Running("reconnection") # {} /\ ReconnectDone

NextMonitoring ==
    \/ StartMonitoring \/ StopHeartbeat \/ StopReconnection \/ Aclose
    \/ MonitoringRegister \/ Respond \/ MonitoringRemove
    \/ OpenOk \/ InitializeOk \/ ListToolsOk \/ ListToolsError
    \/ MonitoringReconnectTick \/ ReconnectChild \/ MonitoringReconnectDone
    \/ MonitoringHeartbeatTick \/ HeartbeatDisconnect \/ HeartbeatProbe
    \/ Tick

SpecMonitoring == Init /\ [][NextMonitoring]_vars


(***************************************************************************)
(* Claims.                                                                 *)
(***************************************************************************)

\* C1: in every reachable state every tool name of tool_to_session_map maps to a
\* session that is registered (it is sessions[u] for some URL u), so
\* get_session_for_tool never returns a session that is not in the registry.
C1_ToolOwnerRegistered ==
    \A t \in ToolNames :
        get_session_for_tool(t) # None => get_session_for_tool(t) \in Range(sessions)

\* C2: in every reachable state sessions, service_names and service_health have
\* the same key set, and tool_cache and tool_to_session_map have the same key set.
C2_SameKeySets ==
    /\ DOMAIN sessions = DOMAIN service_names
    /\ DOMAIN sessions = DOMAIN service_health
    /\ DOMAIN tool_cache = DOMAIN tool_to_session_map

\* C2 witness: one URL is attached with tools installed and is being probed, another
\* has expired, is detached and pending reconnection.
C2_Witness ==
    /\ DOMAIN tool_cache # {}
    /\ \E u \in DOMAIN sessions : u \in probe_tasks
    /\ \E u \in pending_reconnection : u \notin DOMAIN sessions
    /\ urls_timed_out = {}


\* the tool names server u advertises
M(u) == SeqToSet(manifest[u])

IsAttach(e) == e.op = "attach"
IsDetach(e) == e.op = "detach"

\* C3: first writer wins.  For two distinct URLs A and B attached one after the
\* other onto the empty registry, the installed names are M(A) \cup (M(B) \ M(A)),
\* every name of M(A) \cap M(B) keeps A's session as owner and A's definition, and
\* add_service for B returns exactly the names of M(B) \ M(A) (either order of URLs).
C3_FirstWriterWins ==
    (Len(hist) >= 2 /\ IsAttach(hist[1]) /\ IsAttach(hist[2]) /\ hist[1].url # hist[2].url)
    => LET a == hist[1]
           b == hist[2]
       IN  /\ DOMAIN a.reg.tool_cache = M(a.url)
           /\ DOMAIN b.reg.tool_cache = M(a.url) \cup (M(b.url) \ M(a.url))
           /\ DOMAIN b.reg.tool_to_session_map = DOMAIN b.reg.tool_cache
           /\ \A t \in M(a.url) \cap M(b.url) :
                  /\ b.reg.tool_to_session_map[t] = a.session
                  /\ b.reg.sessions[a.url] = a.session
                  /\ b.reg.tool_cache[t] = a.reg.tool_cache[t]
           /\ SeqToSet(b.added) = M(b.url) \ M(a.url)
           /\ Len(b.added) = Cardinality(M(b.url) \ M(a.url))

\* C3 witness: B was attached after A, shares a name with A and brings a new one.
C3_Witness ==
    /\ Len(hist) >= 2 /\ IsAttach(hist[1]) /\ IsAttach(hist[2])
    /\ hist[1].url # hist[2].url
    /\ M(hist[1].url) \cap M(hist[2].url) # {}
    /\ M(hist[2].url) \ M(hist[1].url) # {}

\* C4: detach is atomic.  In the step in which an attached U leaves sessions, U
\* also leaves service_names and service_health and no tool name maps to the
\* session that was sessions[U] any more; and a tool of a registered session stops
\* being routed to it only in a step in which that session's URL leaves sessions.
C4_DetachAtomic ==
    [][\A u \in URLs :
          /\ (u \in DOMAIN sessions /\ u \notin DOMAIN sessions')
             => /\ u \notin DOMAIN service_names'
                /\ u \notin DOMAIN service_health'
                /\ \A t \in DOMAIN tool_to_session_map' :
                       tool_to_session_map'[t] # sessions[u]
                /\ \A t \in DOMAIN tool_cache :
                       (t \in DOMAIN tool_to_session_map /\ tool_to_session_map[t] = sessions[u])
                       => t \notin DOMAIN tool_cache'
          /\ \A t \in DOMAIN tool_to_session_map :
                 (/\ u \in DOMAIN sessions
                  /\ tool_to_session_map[t] = sessions[u]
                  /\ (t \notin DOMAIN tool_to_session_map'
                      \/ tool_to_session_map'[t] # sessions[u]))
                 => u \notin DOMAIN sessions']_vars

\* C4 witness: a session that was attached (it carries its url attribute) has been
\* detached: its URL is not registered and none of the URL's tools is routable,
\* while the other URL is still attached and routes tools.
C4_Witness ==
    /\ \E s \in DOMAIN session_attrs :
           /\ s \notin Range(sessions)
           /\ session_attrs[s].url \notin DOMAIN sessions
           /\ \A t \in M(session_attrs[s].url) : get_session_for_tool(t) # s
    /\ \E v \in DOMAIN sessions : get_tools_for_service(v) # {}

\* C5: detaching a URL that is not registered is a no-op.  When a disconnect task
\* of the heartbeat tick runs for a URL that is no longer in sessions,
\* remove_service returns None, the five registry maps and the pending set are
\* unchanged, and a further remove_service changes nothing either.
C5_DetachUnknownNoop ==
    [][\A u \in URLs :
          (u \in urls_timed_out /\ u \notin urls_timed_out' /\ u \notin DOMAIN sessions)
          => /\ remove_service(u).ret = None
             /\ remove_service(u) = CurrentRegistry
             /\ UNCHANGED <<registry, pending_reconnection>>]_vars

\* C5 witness: a disconnect task of the heartbeat tick is due for a URL that
\* another task has removed from the registry since the tick marked it.
C5_Witness ==
    \E u \in urls_timed_out : u \notin DOMAIN sessions /\ u \in pending_reconnection

\* what a client can observe of the registry: the URL set, the names, the tool
\* definitions and for every tool the URL(s) whose session it is routed to
Observation(reg) ==
    [urls |-> DOMAIN reg.sessions,
     names |-> reg.service_names,
     tools |-> reg.tool_cache,
     routes |-> [t \in DOMAIN reg.tool_to_session_map |->
                    {u \in DOMAIN reg.sessions :
                        reg.sessions[u] = reg.tool_to_session_map[t]}]]

\* C6: round trip.  attach(U); detach(U); attach(U) with the same manifest and
\* name leaves the registry observationally equal to the state after the first
\* attach(U), every installed tool of U being routed to U's current session.
C6_RoundTrip ==
    \A i \in 1..(Len(hist) - 2) :
        (/\ IsAttach(hist[i]) /\ IsDetach(hist[i + 1]) /\ IsAttach(hist[i + 2])
         /\ hist[i + 1].url = hist[i].url /\ hist[i + 2].url = hist[i].url
         /\ hist[i + 2].name = hist[i].name)
        => /\ Observation(hist[i + 2].reg) = Observation(hist[i].reg)
           /\ hist[i + 2].added = hist[i].added
           /\ \A t \in SeqToSet(hist[i + 2].added) :
                  hist[i + 2].reg.tool_to_session_map[t]
                      = hist[i + 2].reg.sessions[hist[i].url]
           /\ hist[i + 2].reg.sessions[hist[i].url] = hist[i + 2].session

\* C6 witness: the round trip has been made by a server that advertises tools.
C6_Witness ==
    /\ Len(hist) >= 3
    /\ IsAttach(hist[1]) /\ IsDetach(hist[2]) /\ IsAttach(hist[3])
    /\ hist[2].url = hist[1].url /\ hist[3].url = hist[1].url
    /\ hist[3].name = hist[1].name
    /\ hist[3].added # <<>>

\* C7: registering the same URL twice back-to-back yields one registry entry: the
\* second attach detaches the old session first, so afterwards sessions[U] is the
\* second session, every tool the first attach installed (all of M(U) on an
\* otherwise empty registry) is installed and owned by the second session, and
\* none is skipped as a conflict with the first.
C7_ReRegister ==
    \A i \in 1..(Len(hist) - 1) :
        (IsAttach(hist[i]) /\ IsAttach(hist[i + 1]) /\ hist[i + 1].url = hist[i].url)
        => LET a == hist[i]
               b == hist[i + 1]
           IN  /\ b.session # a.session
               /\ b.reg.sessions[b.url] = b.session
               /\ DOMAIN b.reg.sessions = DOMAIN a.reg.sessions
               /\ a.session \notin Range(b.reg.sessions)
               /\ a.session \notin Range(b.reg.tool_to_session_map)
               /\ SeqToSet(b.added) = SeqToSet(a.added)
               /\ \A t \in SeqToSet(a.added) : b.reg.tool_to_session_map[t] = b.session
               /\ (i = 1 => SeqToSet(b.added) = M(b.url))

\* C7 witness: a URL with tools has been registered twice in a row.
C7_Witness ==
    /\ Len(hist) >= 2 /\ IsAttach(hist[1]) /\ IsAttach(hist[2])
    /\ hist[2].url = hist[1].url
    /\ M(hist[1].url) # {}

\* C8: whenever connect_service(U) returns success, U is in sessions and U is not
\* in pending_reconnection at the moment of the return.
C8_SuccessReconciled ==
    [][\A k \in TaskIds :
          (tasks[k].pc # "done" /\ tasks'[k].pc = "done" /\ tasks'[k].result.ok)
          => /\ tasks[k].url \in DOMAIN sessions'
             /\ tasks[k].url \notin pending_reconnection']_vars

\* C8 witness: a connect_service call of the reconnect tick, made because its URL
\* was pending, has returned success.
C8_Witness ==
    \E u \in URLs : /\ tasks[Child(u)].pc = "done"
                    /\ tasks[Child(u)].result.ok
                    /\ u \in DOMAIN sessions


\* the failure kinds of an attach, by the exception that ended connect_service
Unreachable(e) == e.class \in {"ConnectError", "ConnectTimeout"}
BadGateway(e) == e.class = "HTTPStatusError" /\ e.code = 502
Returns(k) == tasks[k].pc # "done" /\ tasks'[k].pc = "done"
HasMarker(text) ==
    \/ Contains(text, <<"502", "Bad", "Gateway">>)
    \/ Contains(text, <<"Connection", "failed">>)
    \/ Contains(text, <<"Network", "connection", "error">>)

\* C9: when a /register attach of U fails as Unreachable (connect error or connect
\* timeout after the retries) or as BadGateway (HTTP 502 of the target), the
\* request is answered with status 502 and U is in pending_reconnection afterwards.
C9_ConnectionFailure502 ==
    \A k \in Requests :
        (/\ tasks[k].pc = "done" /\ ~tasks[k].result.ok
         /\ (Unreachable(tasks[k].result.error) \/ BadGateway(tasks[k].result.error)))
        => /\ tasks[k].result.status = 502
           /\ tasks[k].url \in pending_reconnection

C11_BoundedRetries ==
    /\ [][\A k \in Requests :
            /\ tasks'[k].opens <= 3
            /\ (tasks[k].pc = "open" /\ tasks'[k].pc = "open" /\ tasks'[k] # tasks[k])
               => /\ tasks'[k].opens = tasks[k].opens + 1
                  /\ tasks'[k].last_error.class \in {"ConnectError", "ConnectTimeout"}
            /\ (tasks[k].pc = "open" /\ tasks'[k].pc \in {"init", "done"})
               => /\ tasks'[k].opens = tasks[k].opens
                  /\ (tasks'[k].result.error.class \in {"ConnectError", "ConnectTimeout"}
                      => tasks[k].opens = 3)
            /\ (tasks[k].pc \in {"init", "list"})
               => /\ tasks'[k].opens = tasks[k].opens
                  /\ tasks'[k].pc \in {"init", "list", "done"}
            /\ (tasks[k].pc = "done" /\ tasks'[k].pc # "idle")
               => tasks'[k].opens = tasks[k].opens]_vars
    /\ \A k \in Requests :
           (tasks[k].pc \in {"open", "init", "list"}) ~> (tasks[k].pc = "done")

\* C11 witness: a call has returned success from its third stream open, after two
\* connect failures.
C11_Witness ==
    \E k \in Requests :
        /\ tasks[k].pc = "done" /\ tasks[k].result.ok
        /\ tasks[k].opens = 3
        /\ tasks[k].last_error.class \in {"ConnectError", "ConnectTimeout"}

\* the age of U's last heartbeat, U being registered
Age(u) == now - service_health[u]

\* the step in which a heartbeat tick examines the registered URLs
TickStep == urls_timed_out = {} /\ probe_tasks = {} /\ urls_timed_out' \cup probe_tasks' # {}

\* C12: heartbeat boundary.  For an attached URL whose last heartbeat is exactly
\* heartbeat_timeout old is_service_healthy is true and a tick probes it instead
\* of expiring it; when the age is greater, is_service_healthy is false and a tick
\* expires it; for an attached URL the tick expires exactly the unhealthy ones.
C12_HeartbeatBoundary ==
    /\ [](\A u \in DOMAIN sessions :
             /\ u \in DOMAIN service_health
             /\ (Age(u) = heartbeat_timeout => is_service_healthy(u))
             /\ (Age(u) > heartbeat_timeout => ~is_service_healthy(u))
             /\ (Age(u) < heartbeat_timeout => is_service_healthy(u)))
    /\ [][TickStep =>
            \A u \in DOMAIN sessions :
                /\ (Age(u) = heartbeat_timeout
                    => u \in probe_tasks' /\ u \notin urls_timed_out')
                /\ (Age(u) > heartbeat_timeout
                    => u \in urls_timed_out' /\ u \in pending_reconnection')
                /\ (u \in urls_timed_out' <=> ~is_service_healthy(u))]_vars

\* C12 witness: a tick has probed, not expired, a URL whose heartbeat is exactly
\* heartbeat_timeout old, and has expired another whose heartbeat is older.
C12_Witness ==
    /\ \E u \in probe_tasks :
           u \in DOMAIN sessions /\ Age(u) = heartbeat_timeout
    /\ \E v \in urls_timed_out :
           v \in DOMAIN sessions /\ Age(v) > heartbeat_timeout

\* C13: in every reachable state is_service_healthy(U) implies U in sessions; it
\* is false for a URL that was detached, has expired or was never attached.
C13_HealthyRegistered ==
    \A u \in URLs : is_service_healthy(u) => u \in DOMAIN sessions

\* C13 witness: one URL is attached and healthy, the other was attached, has
\* expired and is detached, its last heartbeat being gone with it.
C13_Witness ==
    /\ \E u \in DOMAIN sessions : is_service_healthy(u)
    /\ \E v \in pending_reconnection :
           /\ v \notin DOMAIN sessions
           /\ \E s \in DOMAIN session_attrs : session_attrs[s].url = v
           /\ ~is_service_healthy(v)

\* C14: a failed health probe changes nothing: the registry maps (sessions, tools,
\* last heartbeats) and pending_reconnection are as before and the other probes
\* of the tick are still running; and the heartbeat tick marks for disconnection
\* exactly the URLs whose last heartbeat is older than heartbeat_timeout at the
\* tick, and disconnects none but those.
C14_FailedProbeHarmless ==
    [][/\ \A u \in URLs :
             (u \in probe_tasks /\ u \notin probe_tasks' /\ u \notin server_up)
             => /\ UNCHANGED <<registry, pending_reconnection, urls_timed_out>>
                /\ probe_tasks' = probe_tasks \ {u}
       /\ TickStep =>
             /\ urls_timed_out' = {u \in DOMAIN sessions : Age(u) > heartbeat_timeout}
             /\ UNCHANGED registry
       /\ (~TickStep /\ urls_timed_out' # urls_timed_out) =>
             \E u \in urls_timed_out :
                 /\ urls_timed_out' = urls_timed_out \ {u}
                 /\ DOMAIN sessions' = DOMAIN sessions \ {u}
                 /\ \A v \in DOMAIN sessions' : sessions'[v] = sessions[v]]_vars

\* C14 witness: a probe of an attached URL has failed, the URL is still attached
\* with its tools and its old heartbeat, and the probe of the other URL is running.
C14_Witness ==
    \E u \in DOMAIN sessions :
        /\ u \notin server_up
        /\ u \notin probe_tasks
        /\ probe_tasks # {}
        /\ Age(u) = heartbeat_timeout
        /\ get_tools_for_service(u) # {}
        /\ u \notin pending_reconnection

\* A's session is gone, A awaits reconnection and no tool is routed to a session of A
Expired(a) ==
    /\ a \notin DOMAIN sessions
    /\ a \in pending_reconnection
    /\ \A t \in DOMAIN tool_to_session_map :
           session_attrs[tool_to_session_map[t]].url # a

Recovered(a) == a \in DOMAIN sessions /\ a \notin pending_reconnection

\* the model has no session object left for a reconnection of A
Exhausted(a) == created = MaxSessions /\ tasks[Child(a)].session = None

\* C15: expiry and recovery under fair scheduling of the loops.  An attached URL A
\* whose server is down is eventually expired (not in sessions, pending, none of
\* its tools routable) unless the server comes back first; and an expired A whose
\* server is up is eventually in sessions again and not pending, unless the server
\* goes down again first.
C15_ExpiryAndRecovery ==
    \A a \in URLs :
        /\ (a \in DOMAIN sessions /\ a \notin server_up)
               ~> (Expired(a) \/ a \in server_up)
        /\ (Expired(a) /\ a \in server_up /\ created < MaxSessions)
               ~> (Recovered(a) \/ a \notin server_up \/ Exhausted(a))

\* C15 witness: both URLs were attached, one has expired while its server was down
\* and has been reconnected by the reconnect loop after the server came back.
C15_Witness ==
    \E a \in URLs :
        /\ tasks[Child(a)].pc = "done" /\ tasks[Child(a)].result.ok
        /\ Recovered(a)
        /\ \E s \in DOMAIN session_attrs :
               session_attrs[s].url = a /\ s # sessions[a]

\* C16: an agent run makes at most max_iterations model calls in each of its three
\* modes and then ends; when the model requests a tool on every call the run makes
\* exactly max_iterations model calls and ends at the iteration limit.
ToolCallTurns(r) ==
    Cardinality({i \in 1..Len(r.messages) :
                    r.messages[i] = Message("assistant", NoContent)})

C16_BoundedModelCalls ==
    /\ [](/\ run.llm_calls <= max_iterations
          /\ run.llm_calls <= run.iterations
          /\ run.pc = "done" /\ run.exit = "iteration_limit"
                 => run.llm_calls = max_iterations
          /\ run.pc = "done" /\ ToolCallTurns(run) = run.llm_calls
                 => run.exit = "iteration_limit" /\ run.llm_calls = max_iterations)
    /\ (run.pc # "idle") ~> (run.pc = "done")

C16_Witness ==
    /\ run.pc = "done"
    /\ run.exit = "iteration_limit"
    /\ run.llm_calls = max_iterations
    /\ ToolCallTurns(run) = max_iterations
    /\ run.mode = "stream_process_query_token"

\* C17: when a run ends at the iteration limit, in every mode its result is the
\* sentence "Processing ... exceeded the maximum iteration limit (N)." followed by
\* the content of the last assistant message of the conversation (nothing, where
\* that message has no content).
LastAssistantContent(r) ==
    LET turns == {i \in 1..Len(r.messages) : r.messages[i].role = "assistant"}
        last == CHOOSE i \in turns : \A j \in turns : j <= i
    IN  IF turns = {} \/ r.messages[last].content = NoContent THEN <<>>
        ELSE r.messages[last].content

C17_IterationLimitResult ==
    run.pc = "done" /\ run.exit = "iteration_limit" =>
        \E prefix \in {IterationLimitPrefix, TokenIterationLimit} :
            run.result = prefix \o LastAssistantContent(run)

\* C18: a tool dispatch that fails does not fail the run.  When the requested tool
\* has no owner or its owner's URL is unhealthy, call_tool is not invoked and the
\* error string is appended as the tool-result message; when call_tool raises, the
\* error string is appended likewise; the run then makes its next model call (or
\* ends at the iteration limit), it ends with an error result only when a model
\* call raised, and when the model then gives its final answer the result is that
\* answer (stripped; in token mode the content streamed by the model, ending with
\* that answer).
Continues ==
    IF run.iterations < max_iterations
    THEN run'.pc = "llm" /\ run'.iterations = run.iterations + 1 /\ run'.exit = ""
    ELSE run'.pc = "done" /\ run'.exit = "iteration_limit"

DispatchFails(function_name) ==
    LET owner == get_session_for_tool(function_name)
    IN  \/ owner = None
        \/ ~is_service_healthy(session_attrs[owner].url)

DispatchError(function_name) ==
    IF get_session_for_tool(function_name) = None THEN NoServiceError(function_name)
    ELSE UnavailableError(function_name)

FailedDispatch(function_name, messages) ==
    /\ run'.invoked = run.invoked
    /\ run'.messages = Append(messages, Message("tool", DispatchError(function_name)))
    /\ Continues

HadToolError(r) ==
    \E i \in 1..Len(r.messages), n \in RequestedTools :
        /\ r.messages[i].role = "tool"
        /\ r.messages[i].content \in {NoServiceError(n), UnavailableError(n), InternalError(n)}

ParseFailure(tool_call, messages) ==
    ~json_loads(tool_call.arguments).ok =>
        /\ run'.invoked = run.invoked
        /\ run'.messages = Append(messages, Message("tool", ParseError(tool_call.name)))
        /\ Continues

C19_InvalidArgumentsNotDispatched ==
    [][/\ \A response \in ModelResponses :
             /\ agent_model_call(response)
             /\ run.mode = "process_query"
             /\ response.finish_reason = "tool_calls"
             => ParseFailure(response.tool_calls[1],
                             Append(run.messages, Message("assistant", NoContent)))
       /\ agent_dispatch => ParseFailure(run.tool_calls[1], run.messages)
      ]_vars

\* C20: health is checked when the tool is dispatched.  If the service that owned
\* the requested tool when the run took its tool snapshot, or when the model call
\* that requested it returned, is detached or expired at the dispatch, then the
\* dispatch appends an error string as the tool result, call_tool is not invoked,
\* and the run goes on to its next model call (or ends at the iteration limit).
PriorOwners(function_name) ==
    ({run.request_owner}
         \cup (IF function_name \in DOMAIN run.snapshot_owners
               THEN {run.snapshot_owners[function_name]} ELSE {}))
    \ {NoUrl}

DetachedOrExpired(url) == url \notin DOMAIN sessions \/ ~is_service_healthy(url)

OwnerFailed(function_name) ==
    \E url \in PriorOwners(function_name) : DetachedOrExpired(url)

ErrorResult(function_name, messages) ==
    /\ run'.invoked = run.invoked
    /\ \E e \in {NoServiceError(function_name), UnavailableError(function_name),
                  ParseError(function_name)} :
           run'.messages = Append(messages, Message("tool", e))
    /\ Continues

CalledElsewhere(function_name) ==
    /\ run'.pc = "calling"
    /\ run'.exit = ""
    /\ Len(run'.invoked) = Len(run.invoked) + 1
    /\ LET call == run'.invoked[Len(run'.invoked)]
       IN  /\ call.name = function_name
           /\ call.session = get_session_for_tool(function_name)
           /\ \A url \in PriorOwners(function_name) :
                  DetachedOrExpired(url) => session_attrs[call.session].url # url

ErrorOrNewOwner(function_name, messages) ==
    IF owner_url(function_name) # NoUrl /\ is_service_healthy(owner_url(function_name))
    THEN CalledElsewhere(function_name) \/ ErrorResult(function_name, messages)
    ELSE ErrorResult(function_name, messages)

C30_DetachedProbeNoop ==
    /\ [](\A u \in URLs \ DOMAIN sessions : update_service_health(u) = service_health)
    /\ [][\A u \in URLs :
              (u \in probe_tasks /\ u \notin probe_tasks' /\ u \notin DOMAIN sessions)
              => /\ service_health' = service_health
                 /\ u \notin DOMAIN service_health'
                 /\ ~is_service_healthy(u)']_vars

\* C30 witness: the probe of a URL is in flight and the URL is no longer attached.
C30_Witness ==
    \E u \in probe_tasks :
        /\ u \notin DOMAIN sessions
        /\ urls_timed_out = {}

\* C29: a heartbeat tick puts each URL of its snapshot either among the expired
\* URLs, which it adds to pending_reconnection and then detaches, or among the
\* probed URLs, never among both; and no probe of the tick delivers its result
\* while an expired URL of the tick is still to be detached.
C29_ExpireOrProbe ==
    /\ [](urls_timed_out \cap probe_tasks = {})
    /\ [][/\ TickStep =>
               /\ urls_timed_out' \cup probe_tasks' = DOMAIN sessions
               /\ urls_timed_out' \subseteq pending_reconnection'
          /\ (~TickStep /\ probe_tasks' # probe_tasks) =>
               /\ urls_timed_out = {}
               /\ probe_tasks' \subseteq probe_tasks
          /\ (~TickStep /\ urls_timed_out' # urls_timed_out) =>
               \E u \in urls_timed_out :
                   /\ urls_timed_out' = urls_timed_out \ {u}
                   /\ u \notin DOMAIN sessions'
                   /\ probe_tasks' = probe_tasks]_vars

\* C29 witness: a tick has found one URL expired and the other one not; the expired
\* URL is marked for reconnection and about to be detached, the other one has its
\* probe.
C29_Witness ==
    \E u \in urls_timed_out, v \in probe_tasks :
        /\ u # v
        /\ u \in pending_reconnection
        /\ u \in DOMAIN sessions /\ v \in DOMAIN sessions

\* the schema a tool is stored with when its declared schema is not object-typed
Wrapped(declared) ==
    [type |-> "object",
     properties |-> IF declared = NoSchema THEN EmptySchema ELSE declared,
     required |-> declared.keys]

\* C28: after an attach every tool of the manifest is in tool_cache and routable,
\* and every tool the attach installed is stored with an object-typed parameter
\* schema: the declared schema itself when that is a dict with type object, else
\* the wrapper {type: object, properties: declared, required: its top-level keys};
\* normalizing a stored schema again changes nothing.
C28_ObjectTypedSchemas ==
    \A i \in 1..Len(hist) :
        LET e == hist[i]
        IN  e.op = "attach" =>
              /\ \A t \in SeqToSet(manifest[e.url]) :
                     /\ t \in DOMAIN e.reg.tool_cache
                     /\ t \in DOMAIN e.reg.tool_to_session_map
              /\ \A t \in SeqToSet(e.added) :
                     LET declared == RawTool(e.url, t).inputSchema
                         stored == e.reg.tool_cache[t].parameters
                     IN  /\ stored.type = "object"
                         /\ stored = IF declared.type = "object" THEN declared
                                     ELSE Wrapped(declared)
                         /\ normalize_parameters(stored) = stored
                         /\ e.reg.tool_to_session_map[t] = e.session

\* C28 witness: attaches have installed a tool that declares an object schema, one
\* whose schema is a dict without type object and one that declares no schema.
C28_Witness ==
    /\ {"t1", "t2", "t3"} \subseteq UNION {SeqToSet(hist[i].added) : i \in 1..Len(hist)}
    /\ {"t1", "t2", "t3"} \subseteq DOMAIN tool_cache
    /\ \E i \in 1..Len(hist) : {"t2", "t3"} \subseteq SeqToSet(hist[i].added)

\* C21: in every mode the number of call_tool invocations of a run is at most the
\* number of model responses of the run that requested tools: a response that
\* requests tools causes at most one invocation, that of the first requested call.
C21_OneCallPerToolResponse == Len(run.invoked) <= ToolCallTurns(run)

\* the positions of the final records among the emitted records
Finals(emitted) == {i \in 1..Len(emitted) : emitted[i].is_final}

\* the record that completes the step started at position i comes next
CompletedNext(emitted, i) ==
    /\ emitted[i + 1].id = emitted[i].id
    /\ emitted[i + 1].type = emitted[i].type
    /\ emitted[i + 1].status = "complete"

\* C22: a step-streamed run that has ended, on whichever path (final answer, model
\* error, missing configuration, iteration limit), has emitted exactly one record
\* with is_final true, as its last record, and emits nothing after it; a run that
\* has not ended has emitted none.  Every record with status start is followed
\* directly by the record with the same id and status complete, and every
\* complete record follows its start record.
C22_OneFinalRecordLast ==
    /\ [](run.mode = "stream_process_query" =>
            LET emitted == run.emitted
            IN  /\ Finals(emitted) = IF run.pc = "done" THEN {Len(emitted)} ELSE {}
                /\ run.pc = "done" => Len(emitted) >= 1
                /\ \A i \in 1..Len(emitted) :
                       /\ (emitted[i].status = "start" /\ i < Len(emitted))
                              => CompletedNext(emitted, i)
                       /\ emitted[i].status = "complete"
                              => i > 1 /\ emitted[i - 1].status = "start"
                                       /\ emitted[i - 1].id = emitted[i].id
                       /\ (emitted[i].status = "start" /\ i = Len(emitted))
                              => run.pc \in {"dispatch", "calling"}
                \* the ids of the steps are distinct
                /\ \A i, j \in 1..Len(emitted) :
                       (emitted[i].status = "start" /\ emitted[j].status = "start" /\ i # j)
                       => emitted[i].id # emitted[j].id)
    /\ [][run.pc = "done" => run'.emitted = run.emitted]_vars

\* C22 witness: a step-streamed run has ended at the iteration limit after thinking
\* and tool steps, with the final record as its last record.
C22_Witness ==
    /\ run.mode = "stream_process_query"
    /\ run.pc = "done"
    /\ run.exit = "iteration_limit"
    /\ \E i \in 1..Len(run.emitted) :
           run.emitted[i].type = "tool_call" /\ run.emitted[i].status = "complete"
    /\ run.emitted[Len(run.emitted)].is_final

\* C26: when a model call raises, the run ends in that step with the error string
\* as its result (for a step-streamed run: as its final record); the step makes no
\* tool call, and the run makes no model call and no tool call afterwards.
C26_ModelErrorEndsRun ==
    /\ [](run.raised =>
            /\ run.pc = "done"
            /\ run.exit = "model_error"
            /\ run.result = ModelError
            /\ run.mode = "stream_process_query" =>
                   /\ run.emitted # <<>>
                   /\ run.emitted[Len(run.emitted)].is_final)
    /\ [][/\ (run'.raised /\ ~run.raised) =>
                /\ run.pc = "llm"
                /\ run'.llm_calls = run.llm_calls + 1
                /\ run'.invoked = run.invoked
                /\ run'.messages = run.messages
          /\ run.raised => run' = run]_vars

\* C26 witness: the second model call of a run has raised, after a tool call.
C26_Witness ==
    /\ run.raised
    /\ run.llm_calls = 2
    /\ Len(run.invoked) = 1
    /\ run.pc = "done"

\* what a run has done as the model, the sessions and the caller see it
Conduct(r) ==
    [pc |-> r.pc, invoked |-> r.invoked, messages |-> r.messages, exit |-> r.exit,
     result |-> r.result, llm_calls |-> r.llm_calls]

\* C23: process_query and stream_process_query, given the same model responses,
\* the same registry states and the same tool outcomes, are at the same point of
\* the loop after every step, have made the same call_tool invocations with the
\* same arguments, have built the same message history and, when they have ended,
\* have the same result.
C23_SameStateMachine == Conduct(run) = Conduct(twin)

\* the steps a run has made: its model responses and its tool results
OwnSteps(r) ==
    r.llm_calls + Cardinality({i \in 1..Len(r.messages) : r.messages[i].role = "tool"})

\* C24: a query that went through process_query_with_trace and ended with a final
\* answer or at the iteration limit gets back a trace that holds all the steps of
\* its own run, whatever the other query did in the meantime.
C24_TraceOfOwnSteps ==
    \A q \in Queries :
        (/\ queries[q].pc = "returned"
         /\ queries[q].entry = "process_query_with_trace"
         /\ queries[q].run.exit \in {"final_answer", "iteration_limit"})
        => /\ queries[q].trace # NoTrace
           /\ Len(queries[q].trace) = OwnSteps(queries[q].run)

\* C27: a query with trace that runs alone, whose model requests one tool call and
\* then gives its final answer, gets back a trace of exactly 2 entries (one per
\* dispatched tool call and one for the final answer) and the stripped content of
\* the final answer as its result.
C27_TraceLength ==
    \A q \in Queries :
        (/\ queries[q].pc = "returned"
         /\ queries[q].entry = "process_query_with_trace"
         /\ \A p \in Queries \ {q} : queries[p].pc = "idle"
         /\ queries[q].run.exit = "final_answer")
        => /\ Len(queries[q].trace) = ToolCallTurns(queries[q].run) + 1
           /\ queries[q].run.llm_calls = 2 /\ Len(queries[q].run.invoked) = 1
                  => Len(queries[q].trace) = 2
           /\ queries[q].result = strip(<<Blank, "ok">>)

\* C25: a step of a query, in whichever mode and whether its tool call succeeds or
\* fails, leaves sessions, service_names, service_health, tool_cache,
\* tool_to_session_map and pending_reconnection as they were.
C25_QueriesLeaveRegistry ==
    [][queries' # queries => UNCHANGED <<registry, pending_reconnection>>]_vars

\* C25 witness: two queries that ran concurrently in different modes have returned,
\* both have called a tool of an attached service, and one of the calls raised.
C25_Witness ==
    /\ \A q \in Queries : queries[q].pc = "returned" /\ queries[q].run.invoked # <<>>
    /\ queries["q1"].run.mode # queries["q2"].run.mode
    /\ \E q \in Queries :
           \/ Message("tool", InternalError("t2")) \in SeqToSet(queries[q].run.messages)
           \/ queries[q].result = InternalError("t2")
    /\ \E q \in Queries : queries[q].run.mode = "standard"
    /\ DOMAIN sessions # {}

\* the names of the tools of a tool list
Names(tools) == {tool.name : tool \in tools}

\* the tool was in the snapshot of the run and the service that owned it then is
\* not attached now
SnapshotToolDetached(function_name) ==
    /\ function_name \in DOMAIN run.snapshot_owners
    /\ run.snapshot_owners[function_name] \notin DOMAIN sessions

\* every model call of the run got the snapshot taken at the start of the run
SnapshotOffered ==
    /\ [](\A i \in 1..Len(run.offered) : run.offered[i] = run.available_tools)
    /\ [](run.mode \in Modes => Len(run.offered) = run.llm_calls)
    /\ [][/\ (run.pc = "idle" /\ run'.pc # "idle") => run'.available_tools = get_all_tools
          /\ run.pc # "idle" => run'.available_tools = run.available_tools]_vars

ErrorOrRoutableAgain(function_name, messages) ==
    IF function_name \in DOMAIN tool_to_session_map
    THEN \/ ErrorResult(function_name, messages)
         \/ /\ run'.pc = "calling"
            /\ run'.target_session = tool_to_session_map[function_name]
            /\ session_attrs[run'.target_session].url # run.snapshot_owners[function_name]
    ELSE ErrorResult(function_name, messages)

PairedTurns(r) ==
    /\ Len(r.tool_call_ids) = Len(r.messages) - 2
    /\ \A i \in 3..Len(r.messages) :
           IF i % 2 = 1
           THEN r.messages[i] = Message("assistant", NoContent)
           ELSE /\ r.messages[i].role = "tool"
                /\ r.tool_call_ids[i - 2] = r.tool_call_ids[i - 3]
    /\ \A i, j \in 1..Len(r.tool_call_ids) :
           (i % 2 = 1 /\ j % 2 = 1 /\ i # j) => r.tool_call_ids[i] # r.tool_call_ids[j]

IsPrefix(s, t) == Len(s) <= Len(t) /\ \A i \in 1..Len(s) : s[i] = t[i]

TickRuns ==
    \/ check_all_services
    \/ attempt_reconnections
    \/ attempt_reconnections_done
    \/ \E u \in URLs : heartbeat_disconnect(u) \/ reconnect_child_start(u)
    \/ \E c \in Children : tasks'[c] # tasks[c]

\* C33: however often start_monitoring is called, at most one heartbeat task and
\* at most one reconnect task is running; cleanup cancels both, and once cleanup
\* has returned neither handle is set and no tick takes a step.
C33_MonitoringTasks ==
    /\ [](/\ Cardinality(Running("heartbeat")) <= 1
          /\ Cardinality(Running("reconnection")) <= 1)
    /\ [](cleanup_pc \in {"aclose", "done"}
             => Running("heartbeat") = {} /\ Running("reconnection") = {})
    /\ [](cleanup_pc = "done" => heartbeat_task = None /\ reconnection_task = None)
    /\ [][cleanup_pc = "done" => ~TickRuns]_vars

\* start_monitoring was called twice, a heartbeat tick expired a service, and
\* cleanup has returned
C33_Witness ==
    /\ start_calls = 2
    /\ Len(loop_tasks) = 2
    /\ pending_reconnection # {}
    /\ cleanup_pc = "done"

\* C34: every stream an attach opened, also for an attach that failed and for a
\* session that was detached, stays open until teardown and is closed by it: a
\* step that detaches a session closes no stream, and once cleanup has returned
\* no stream is open.
C34_StreamsReleasedAtTeardown ==
    /\ [][(\E u \in DOMAIN sessions : u \notin DOMAIN sessions' \/ sessions'[u] # sessions[u])
            => exit_stack \subseteq exit_stack']_vars
    /\ [](cleanup_pc # "done" => exit_stack = 1..created)
    /\ [](cleanup_pc = "done" => exit_stack = {} /\ released = 1..created)

\* cleanup has returned after two attaches opened their streams; one of the
\* sessions had been detached by a heartbeat tick, or its attach had failed
C34_Witness ==
    /\ cleanup_pc = "done"
    /\ created = 2
    /\ released = {1, 2}
    /\ \E s \in released : s \notin Range(sessions)
    /\ pending_reconnection # {}

\* connect_service(u) returns success in this step
AttachSucceeds(u) ==
    \E k \in TaskIds :
        /\ tasks[k].pc = "list" /\ tasks[k].url = u
        /\ tasks'[k].pc = "done" /\ tasks'[k].result.ok
        /\ u \in DOMAIN sessions' /\ sessions'[u] = tasks[k].session

\* a reconnect tick starts in this step
ReconnectTickStarts ==
    /\ \A c \in Children : tasks[c].pc = "idle"
    /\ \E c \in Children : tasks'[c].pc # "idle"

\* C35: a URL leaves pending_reconnection only in a step in which an attach of
\* that URL succeeds (so not by a failed reconnection attempt, a detach, a
\* /remove_service request or a heartbeat tick), and a reconnect tick starts a
\* connect_service call for every URL that is in the set when it starts, each of
\* which goes on to open its stream.
C35_PendingLeavesByAttach ==
    /\ [][\A u \in pending_reconnection :
              u \notin pending_reconnection' => AttachSucceeds(u)]_vars
    /\ [][ReconnectTickStarts
              => \A u \in pending_reconnection :
                     tasks'[Child(u)].pc = "start" /\ tasks'[Child(u)].url = u]_vars
    /\ [][\A u \in URLs :
              tasks[Child(u)].pc = "start" /\ tasks'[Child(u)].pc # "start"
                  => /\ tasks'[Child(u)].pc = "open"
                     /\ tasks'[Child(u)].url = u
                     /\ tasks'[Child(u)].opens = 1]_vars

\* a reconnect tick attempted both pending URLs: uA was attached and left the
\* set, the attach of uB failed and uB is still in it
C35_Witness ==
    /\ tasks[Child("uA")].pc = "done" /\ tasks[Child("uA")].result.ok
    /\ tasks[Child("uB")].pc = "done" /\ ~tasks[Child("uB")].result.ok
    /\ "uA" \in DOMAIN sessions
    /\ pending_reconnection = {"uB"}

\* the tools routed to the session of u
RoutedTo(u) == {t \in DOMAIN tool_to_session_map : tool_to_session_map[t] = sessions[u]}

\* the registry entries of the URLs other than u are the same after the step
OthersUnchanged(u) ==
    /\ \A v \in DOMAIN sessions \ {u} :
           /\ v \in DOMAIN sessions' /\ sessions'[v] = sessions[v]
           /\ service_names'[v] = service_names[v]
           /\ service_health'[v] = service_health[v]
           /\ \A t \in RoutedTo(v) :
                  /\ t \in DOMAIN tool_to_session_map'
                  /\ tool_to_session_map'[t] = tool_to_session_map[t]
                  /\ t \in DOMAIN tool_cache' /\ tool_cache'[t] = tool_cache[t]
    /\ DOMAIN sessions' \subseteq DOMAIN sessions
    /\ DOMAIN tool_to_session_map' \subseteq DOMAIN tool_to_session_map

\* C36: the preflight detach of connect_service(U) is not rolled back.  When U is
\* attached, the call removes U and every tool routed to it and leaves the other
\* URLs as they are; when U is not attached it leaves the registry unchanged;
\* no later step of a call that fails writes the registry, so after the failure
\* U is absent and no tool is routed to a session of U.
C36_PreflightNotRolledBack ==
    /\ [][\A u \in URLs :
              tasks[1].pc = "idle" /\ tasks'[1].pc = "open" /\ tasks'[1].url = u
                  => IF u \in DOMAIN sessions
                     THEN /\ u \notin DOMAIN sessions'
                          /\ \A t \in RoutedTo(u) : t \notin DOMAIN tool_to_session_map'
                                                      /\ t \notin DOMAIN tool_cache'
                          /\ OthersUnchanged(u)
                     ELSE UNCHANGED registry]_vars
    /\ [][tasks[1].pc # "idle" /\ ~(tasks'[1].pc = "done" /\ tasks'[1].result.ok)
              => UNCHANGED registry]_vars
    /\ [](tasks[1].pc = "done" /\ ~tasks[1].result.ok
             => /\ tasks[1].url \notin DOMAIN sessions
                /\ \A t \in DOMAIN tool_to_session_map :
                       session_attrs[tool_to_session_map[t]].url # tasks[1].url)

\* uA had been attached (a session carries its URL), uB is attached, and a
\* second connect_service(uA) has failed: uA is gone and uB keeps its tools
C36_Witness ==
    /\ tasks[1].pc = "done" /\ ~tasks[1].result.ok /\ tasks[1].url = "uA"
    /\ \E s \in DOMAIN session_attrs : session_attrs[s].url = "uA"
    /\ "uA" \notin DOMAIN sessions
    /\ "uB" \in DOMAIN sessions /\ RoutedTo("uB") # {}

\* hist[i], hist[i + 1], hist[i + 2] are attach(A), attach(B), detach(A), the
\* attach of A installed t and B advertises t as well
SkippedThenOrphaned(i, t) ==
    /\ IsAttach(hist[i]) /\ IsAttach(hist[i + 1]) /\ IsDetach(hist[i + 2])
    /\ hist[i + 1].url # hist[i].url
    /\ hist[i + 2].url = hist[i].url
    /\ t \in SeqToSet(hist[i].added)
    /\ t \in SeqToSet(manifest[hist[i + 1].url])

\* C37: a tool skipped at attach for a name collision is not installed later.
\* After attach(A), attach(B) with a shared name t and detach(A), t is in
\* neither tool map and get_session_for_tool(t) is None although B is attached
\* and advertises t, until the next operation completes; a name becomes
\* routable only in a step that completes an attach.
C37_SkippedToolStaysOut ==
    /\ [](\A i \in 1..(Len(hist) - 2) : \A t \in ToolNames :
             SkippedThenOrphaned(i, t)
                 => /\ t \notin SeqToSet(hist[i + 1].added)
                    /\ t \notin DOMAIN hist[i + 2].reg.tool_cache
                    /\ t \notin DOMAIN hist[i + 2].reg.tool_to_session_map
                    /\ hist[i + 1].url \in DOMAIN hist[i + 2].reg.sessions
                    /\ (i + 2 = Len(hist)
                           => /\ get_session_for_tool(t) = None
                              /\ Quiet => hist[i + 1].url \in DOMAIN sessions))
    /\ [][\A t \in ToolNames :
              get_session_for_tool(t) = None /\ t \in DOMAIN tool_to_session_map'
                  => /\ Len(hist') = Len(hist) + 1
                     /\ IsAttach(hist'[Len(hist')])
                     /\ t \in SeqToSet(hist'[Len(hist')].added)]_vars

\* uA and uB both advertise t2; uA was attached, then uB, then uA detached:
\* uB is attached and t2 is routed nowhere
C37_Witness ==
    /\ Len(hist) = 3
    /\ SkippedThenOrphaned(1, "t2")
    /\ hist[1].url = "uA"
    /\ "uB" \in DOMAIN sessions
    /\ "t2" \in SeqToSet(manifest["uB"])
    /\ get_session_for_tool("t2") = None

\* C38: in every state in which no heartbeat tick is between marking a URL
\* expired and detaching it, no URL is both in sessions and in
\* pending_reconnection.
C38_AttachedNotPending ==
    urls_timed_out = {} => DOMAIN sessions \cap pending_reconnection = {}

\* C39: the detach a heartbeat tick performs for a URL removes the session the
\* tick judged expired: between the tick's reading of the URL's last heartbeat
\* (the URL enters urls_timed_out) and its detach of the URL, no other session is
\* attached to that URL.
C39_DetachOnlyJudged ==
    [][\A u \in urls_timed_out \cap urls_timed_out' :
          u \in DOMAIN sessions'
              => u \in DOMAIN sessions /\ sessions'[u] = sessions[u]]_vars

\* u was registered under its name with an earlier session, and the session it
\* has now was attached by the reconnect loop
ReattachedByLoop(u) ==
    /\ tasks[Child(u)].pc = "done" /\ tasks[Child(u)].result.ok
    /\ u \in DOMAIN sessions /\ sessions[u] = tasks[Child(u)].session
    /\ \E s \in DOMAIN session_attrs :
           /\ s # sessions[u]
           /\ session_attrs[s] = [url |-> u, name |-> register_service_name(u, "")]

\* C40: the display name of a service survives a heartbeat expiry followed by
\* an automatic reconnect: once the reconnect loop has attached U again,
\* service_names[U] and the name of the session are the name of the original
\* registration.
C40_NameSurvivesReconnect ==
    \A u \in URLs :
        ReattachedByLoop(u)
            => /\ service_names[u] = register_service_name(u, "")
               /\ session_attrs[sessions[u]].name = register_service_name(u, "")
====
